---- MODULE Spec2Model ----
(***************************************************************************)
(* Model of the MCL memory substrate (mcl.c / mcl.h): a region of          *)
(* pointer-sized slots hosting a relocating byte heap that grows upward    *)
(* and a pointer stack that grows downward, reference-counted strings,     *)
(* setjmp/longjmp exception handling and stack frames.                     *)
(*                                                                         *)
(* Pointers are byte addresses (integers).  The region is one array of     *)
(* bytes, mem; slots is the same storage read as pointer-sized entries     *)
(* (little-endian): a store through either view is seen through the other. *)
(* Assertions (MCL_ASSERT) are compiled out (MCL_DEBUG undefined): they    *)
(* appear here as the guards of the calling actions.                       *)
(***************************************************************************)
EXTENDS Integers, Sequences, FiniteSets, TLC

\* ======== program constants ========

MCL_MIN_HEAP_ENTRIES == 16
MCL_MAX_STRING_LEN == 32767
MCL_RESULT_OK == 0
MCL_RESULT_OUT_OF_MEMORY == 1
MCL_RESULT_RUNTIME_ERROR == 2
MCL_RESULT_SYNTAX_ERROR == 3
MCL_STRING_FIELD_REF_COUNT == 0
MCL_STRING_FIELD_LENGTH == 1
MCL_STRING_FIELD_CHARS == 3
MCL_CTX_N_INITIAL_FRAMES == 2
UINT8_MAX == 255
NULL == 0
\* sizeof(mcl_heap_type_t) == sizeof(void*)
SlotSize == 8

\* ======== bounds of the model ========

\* the region handed to mcl_init starts at slot number BaseSlot of memory
BaseSlot == 2
\* mcl_init is tried with MIN-1, MIN and MIN+ExtraEntries entries
ExtraEntries == 24
\* at most MaxAllocs live heap allocations
MaxAllocs == 3
\* at most MaxHeight stack entries
MaxHeight == 6
\* except_try nests at most MaxDepth deep
MaxDepth == 2
\* operations after mcl_init: in Spec, SpecHeap, SpecStrings and SpecUnwind
MaxOps == 3
HeapOps == 6
StringOps == 6
UnwindOps == 6
\* in SpecRef: one creation, 254 acquires, 255 releases
RefOps == 510
\* operations in SpecRoots
RootOps == 5
\* operations in SpecStack
StackOps == 5
\* operations in SpecFrames, and the deepest level frame_seek is asked for
FrameOps == 6
MaxLevel == 2
\* operations in SpecInit
InitOps == 3
\* operations in SpecChain
ChainOps == 5
\* operations in SpecGrow
GrowOps == 5
\* statements of the caller and its callback before the raise
DropOps == 7

RegionBase == BaseSlot * SlotSize
MaxEntries == MCL_MIN_HEAP_ENTRIES + ExtraEntries
ByteAddrs == RegionBase .. (RegionBase + MaxEntries * SlotSize - 1)
SlotAddrs == {RegionBase + i * SlotSize : i \in 0 .. (MaxEntries - 1)}
\* size_t arithmetic wraps; TLC integers are 32 bits wide, so the modulus
\* 2^64 of the build is represented by 2^30 (every address is far below it)
SizeMod == 2 ^ 30

size_t(x) == x % SizeMod

VARIABLES
    user_data,      \* mcl_t.user_data
    heap_start,     \* mcl_t.heap_start
    heap_ptr,       \* mcl_t.heap_ptr
    stack_end,      \* mcl_t.stack_end
    stack_ptr,      \* mcl_t.stack_ptr
    frame_ptr,      \* mcl_t.frame_ptr
    jb,             \* mcl_t.jb: the current landing site (NULL, or the
                    \* position on the C stack of the except_try owning it)
    mem,            \* byte view of the region
    slots,          \* slot view of the region
    cstack,         \* the active except_try invocations (their locals)
    pc,             \* "uninit", "run", "landing" (longjmp has fired),
                    \* "aborted" (abort() was called), or "undefined" (a
                    \* call of undefined behaviour was made)
    thrown,         \* the value delivered by longjmp
    result,         \* value returned by the last mcl_init / except_try
    ret,            \* value returned by the last primitive (NULL if void)
    allocs,         \* the callers' record of the live allocations, in
                    \* creation order: [start, size, str], start being the
                    \* address the allocation's first byte is at
    last,           \* the last operation and its arguments
    done,           \* the locals of the except_try that returned last, and
                    \* the cursors it found when its landing site fired
    made,           \* the string created last: its address, heap_space()
                    \* before its creation, and how often its creator has
                    \* acquired and released it since
    char_signed,    \* the build's plain char: TRUE where it is signed
    frames,         \* the callers' record of the frames whose headers are on
                    \* the stack, in push order: the frame's address, and
                    \* frame_ptr, stack_ptr and heap_space() before its
                    \* frame_push
    fuel            \* number of operations the callers may still perform

vars == <<user_data, heap_start, heap_ptr, stack_end, stack_ptr, frame_ptr,
          jb, mem, slots, cstack, pc, thrown, result, ret, allocs, last,
          done, made, frames, char_signed, fuel>>

\* ======== the context and region as one value ========

\* m.ret: the value the operation returns; m.thrown: the value it passed to
\* except_throw (MCL_RESULT_OK if it returned); m.aborted: it called abort();
\* m.undefined: it made a call whose behaviour the language leaves undefined
\* (memmove with a count beyond the address space); from that call on the
\* source does not say what the program does, and the other fields of m
\* say nothing about it
Cur ==
    [heap_start |-> heap_start, heap_ptr |-> heap_ptr,
     stack_end |-> stack_end, stack_ptr |-> stack_ptr,
     frame_ptr |-> frame_ptr, jb |-> jb, mem |-> mem, slots |-> slots,
     allocs |-> allocs, ret |-> NULL, thrown |-> MCL_RESULT_OK,
     aborted |-> FALSE, undefined |-> FALSE,
     char_signed |-> char_signed]

\* F(v), with v worked out once however often F uses it
Let(v, F(_)) == CHOOSE r \in {F(x) : x \in {v}} : TRUE

Byte(m, a) == IF a \in DOMAIN m.mem THEN m.mem[a] ELSE 0

Slot(m, a) == IF a \in DOMAIN m.slots THEN m.slots[a] ELSE NULL

\* byte k of the pointer-sized value v as the build lays it out: 64 bits,
\* little-endian, two's complement (an address below address 0 of the
\* model has every upper byte set)
ByteOf(v, k) ==
    IF k < 4 THEN (v \div (256 ^ k)) % 256
    ELSE IF v < 0 THEN UINT8_MAX ELSE 0

\* the pointer-sized entry the bytes at slot address a make up: an address
\* of the model, or an address below address 0 of the model (a value the
\* sweep has moved down; the upper bytes are all set).  Bytes that make up
\* neither are the bytes of something else (the characters of a string, a
\* packed length): the entry is those eight bytes, no number of the model.
EntryAt(bytes, a) ==
    Let(bytes[a] + bytes[a + 1] * 256 + bytes[a + 2] * 65536,
        LAMBDA u :
            IF /\ bytes[a + 3] < 64
               /\ \A k \in 4 .. (SlotSize - 1) : bytes[a + k] = 0
            THEN u + bytes[a + 3] * 16777216
            ELSE IF /\ bytes[a + 3] >= 192
                    /\ \A k \in 4 .. (SlotSize - 1) : bytes[a + k] = UINT8_MAX
            THEN u + (bytes[a + 3] - 256) * 16777216
            ELSE [k \in 0 .. (SlotSize - 1) |-> bytes[a + k]])

\* *(uint8_t*) a = b: the entry the byte lies in reads differently
WrByte(m, a, b) ==
    IF a \in DOMAIN m.mem
    THEN Let([m EXCEPT !.mem[a] = b % 256],
             LAMBDA w : [w EXCEPT !.slots[a - (a % SlotSize)] =
                                     EntryAt(w.mem, a - (a % SlotSize))])
    ELSE m

\* the region's bytes read as entries, and its entries laid out as bytes
SlotsOf(bytes) == [a \in SlotAddrs |-> EntryAt(bytes, a)]

\* the entries after the bytes of [lo, hi) have been written
Reread(entries, bytes, lo, hi) ==
    [a \in {x \in DOMAIN entries : x + SlotSize > lo /\ x < hi} |->
        EntryAt(bytes, a)] @@ entries

BytesOf(entries) ==
    [a \in ByteAddrs |-> ByteOf(entries[a - (a % SlotSize)], a % SlotSize)]

\* *slot = v: the eight bytes of the slot are written
WrSlot(m, a, v) ==
    IF a \in DOMAIN m.slots
    THEN Let(m, LAMBDA c :
             [c EXCEPT !.slots[a] = v,
                       !.mem = [b \in a .. (a + SlotSize - 1) |->
                                  ByteOf(v, b - a)] @@ c.mem])
    ELSE m

\* the entries become those of entries: the bytes of each changed entry
\* are written
Store(m, entries) ==
    Let(entries, LAMBDA e :
        [m EXCEPT !.slots = e,
                  !.mem = [b \in UNION {a .. (a + SlotSize - 1) :
                                           a \in {x \in DOMAIN e :
                                                    e[x] # m.slots[x]}} |->
                             ByteOf(e[b - (b % SlotSize)], b % SlotSize)]
                          @@ m.mem])

RECURSIVE SumSizes(_, _)
SumSizes(al, n) == IF n = 0 THEN 0 ELSE al[n].size + SumSizes(al, n - 1)

\* where the i-th live allocation starts if the allocations before it lie
\* packed from hs on
StartOf(al, hs, i) == hs + SumSizes(al, i - 1)

\* first byte of the i-th live allocation: the address heap_alloc returned,
\* moved with the allocation's bytes since
AllocStart(m, i) == m.allocs[i].start

AllocAt(m, p) == {i \in 1 .. Len(m.allocs) : AllocStart(m, i) = p}

\* the allocations whose bytes lie in [lo, hi) have moved by delta
Moved(al, lo, hi, delta) ==
    [i \in 1 .. Len(al) |->
        IF al[i].start >= lo /\ al[i].start < hi
        THEN [al[i] EXCEPT !.start = al[i].start + delta] ELSE al[i]]

IsString(m, p) == \E i \in AllocAt(m, p) : m.allocs[i].str

RemoveAt(s, i) == SubSeq(s, 1, i - 1) \o SubSeq(s, i + 1, Len(s))

\* ======== STACK PRIMITIVES ========

\* faulty variant: the heap tip is rounded down to a slot boundary
stack_round_down_ptr(ptr) == (ptr \div SlotSize) * SlotSize

stack_round_up_ptr(ptr) == ((ptr + SlotSize - 1) \div SlotSize) * SlotSize

\* faulty variant: the entries in use are counted, not the free ones
stack_space_as_height(m) == size_t((m.stack_end - m.stack_ptr) \div SlotSize)

stack_space(m) ==
    size_t((m.stack_ptr - stack_round_up_ptr(m.heap_ptr)) \div SlotSize)

stack_height(m) == size_t((m.stack_end - m.stack_ptr) \div SlotSize)

stack_contains(m, ptr) == ptr >= m.stack_ptr /\ ptr < m.stack_end

\* faulty variant: the value is stored before the pointer moves
stack_push_late(m, ptr) ==
    [WrSlot(m, m.stack_ptr, ptr) EXCEPT !.stack_ptr = m.stack_ptr - SlotSize]

stack_push(m, ptr) ==
    LET sp == m.stack_ptr - SlotSize
    IN  WrSlot([m EXCEPT !.stack_ptr = sp], sp, ptr)

stack_pop(m) ==
    [m EXCEPT !.ret = Slot(m, m.stack_ptr),
              !.stack_ptr = m.stack_ptr + SlotSize]

stack_pop_n(m, n) == [m EXCEPT !.stack_ptr = m.stack_ptr + n * SlotSize]

\* faulty variant: the second slot keeps its value
stack_swap_overwrite(m, a, b) == WrSlot(m, a, Slot(m, b))

stack_swap(m, a, b) == WrSlot(WrSlot(m, a, Slot(m, b)), b, Slot(m, a))

\* ======== HEAP PRIMITIVES ========

heap_space(m) == size_t(m.stack_ptr - m.heap_ptr)

heap_contains(m, ptr) == ptr >= m.heap_start /\ ptr < m.heap_ptr

heap_alloc(m, size) ==
    [m EXCEPT !.ret = m.heap_ptr, !.heap_ptr = m.heap_ptr + size]

\* memmove(dest, src, n) on the bytes.  n is a size_t: a negative
\* difference is a count of nearly 2^64 bytes, which no object holds, and
\* the behaviour of the call is undefined: the source does not say which
\* bytes it stores, whether it returns, or what the program does after it.
\* m.undefined records the call.
memmove(m, dest, src, n) ==
    IF n < 0
    THEN [m EXCEPT !.undefined = TRUE]
    ELSE Let(m, LAMBDA c :
             Let([a \in DOMAIN c.mem \cap (dest .. (dest + n - 1)) |->
                     Byte(c, src + (a - dest))] @@ c.mem,
                 LAMBDA bytes :
                     [c EXCEPT !.mem = bytes,
                               !.slots = Reread(c.slots, bytes, dest, dest + n),
                               !.allocs = Moved(c.allocs, src, src + n,
                                                dest - src)]))

\* faulty variant: the sweep also moves the slots that hold ptr itself
relocate_inclusive(m, ptr, delta) ==
    Let(m, LAMBDA c : Store(c, [a \in DOMAIN c.slots |->
        IF /\ a >= c.stack_ptr /\ a < c.stack_end
           /\ c.slots[a] >= ptr /\ c.slots[a] < c.heap_ptr
        THEN c.slots[a] + delta ELSE c.slots[a]]))

\* faulty variant: the bytes move but no slot is rewritten
relocate_no_sweep(m, ptr, delta) == m

\* the sweep over the stack slots of heap_grow and heap_shrink: every slot
\* whose value lies strictly between ptr and heap_ptr moves by delta
relocate(m, ptr, delta) ==
    Let(m, LAMBDA c : Store(c, [a \in DOMAIN c.slots |->
        IF /\ a >= c.stack_ptr /\ a < c.stack_end
           /\ c.slots[a] > ptr /\ c.slots[a] < c.heap_ptr
        THEN c.slots[a] + delta ELSE c.slots[a]]))

heap_grow(m, ptr, old_size, new_size) ==
    LET delta == new_size - old_size
        old_end == ptr + old_size
        new_end == ptr + new_size
        moved == IF m.heap_ptr - old_size # ptr
                 THEN relocate(memmove(m, new_end, old_end,
                                       m.heap_ptr - old_end), ptr, delta)
                 ELSE m
    IN  [moved EXCEPT !.heap_ptr = m.heap_ptr + delta]

heap_shrink(m, ptr, old_size, new_size) ==
    LET delta == old_size - new_size
        old_end == ptr + old_size
        new_end == ptr + new_size
        moved == IF m.heap_ptr - old_size # ptr
                 THEN relocate(memmove(m, new_end, old_end,
                                       m.heap_ptr - old_end), ptr, 0 - delta)
                 ELSE m
    IN  [moved EXCEPT !.heap_ptr = m.heap_ptr - delta]

\* faulty variant: the last byte of the allocation stays allocated
heap_free_short(m, ptr, size) == heap_shrink(m, ptr, size, 1)

heap_free(m, ptr, size) == heap_shrink(m, ptr, size, 0)

\* ======== DATA PACKING ========

\* faulty variant: only the low byte is written
pack_u16_low_byte(m, dest, value) == WrByte(m, dest, value % 256)

\* faulty variant: the high byte is written first
pack_u16_big_endian(m, dest, value) ==
    WrByte(WrByte(m, dest, (value \div 256) % 256), dest + 1, value % 256)

pack_u16(m, dest, value) ==
    WrByte(WrByte(m, dest, value % 256), dest + 1, (value \div 256) % 256)

unpack_u16(m, src) == (Byte(m, src + 1) * 256 + Byte(m, src)) % 65536

\* ======== STRING OBJECT PRIMITIVES ========

string_size(len) == 4 + len

string_ref_count(m, str) == Byte(m, str + MCL_STRING_FIELD_REF_COUNT)

string_len(m, str) == unpack_u16(m, str + MCL_STRING_FIELD_LENGTH)

string_chars(str) == str + MCL_STRING_FIELD_CHARS

string_emplace(m, str, len) ==
    WrByte(pack_u16(WrByte(m, str + MCL_STRING_FIELD_REF_COUNT, 1),
                    str + MCL_STRING_FIELD_LENGTH, len),
           str + MCL_STRING_FIELD_CHARS + len, 0)

except_throw(m, res) == [m EXCEPT !.thrown = res]

\* faulty variant: an allocation that exactly fills the free bytes is refused
string_alloc_strict(m, len) ==
    LET size == string_size(len)
    IN  IF size >= heap_space(m)
        THEN except_throw(m, MCL_RESULT_OUT_OF_MEMORY)
        ELSE LET a == heap_alloc(m, size)
             IN  [string_emplace(a, a.ret, len) EXCEPT
                    !.allocs = Append(m.allocs, [start |-> a.ret, size |-> size,
                                                 str |-> TRUE])]

string_alloc(m, len) ==
    LET size == string_size(len)
    IN  IF size > heap_space(m)
        THEN except_throw(m, MCL_RESULT_OUT_OF_MEMORY)
        ELSE LET a == heap_alloc(m, size)
             IN  [string_emplace(a, a.ret, len) EXCEPT
                    !.allocs = Append(m.allocs, [start |-> a.ret, size |-> size,
                                                 str |-> TRUE])]

\* faulty variant: no overflow check, the count wraps
string_ref_wrapping(m, str) ==
    [WrByte(m, str + MCL_STRING_FIELD_REF_COUNT,
            Byte(m, str + MCL_STRING_FIELD_REF_COUNT) + 1)
        EXCEPT !.ret = str]

string_ref(m, str) ==
    IF Byte(m, str + MCL_STRING_FIELD_REF_COUNT) = UINT8_MAX
    THEN [m EXCEPT !.aborted = TRUE]
    ELSE [WrByte(m, str + MCL_STRING_FIELD_REF_COUNT,
                 Byte(m, str + MCL_STRING_FIELD_REF_COUNT) + 1)
            EXCEPT !.ret = str]

\* the owners' record h.allocs loses the allocation that started at str
\* in m
Forget(m, h, str) ==
    IF AllocAt(m, str) = {} THEN h.allocs
    ELSE RemoveAt(h.allocs, CHOOSE i \in AllocAt(m, str) : TRUE)

\* heap_free(ctx, str, string_size(string_len(str))) and its owner's record
string_free(m, str) ==
    LET h == heap_free(m, str, string_size(string_len(m, str)))
    IN  [h EXCEPT !.allocs = Forget(m, h, str)]

\* faulty variant: a release that does not free leaves the count as it is
string_unref_no_decrement(m, str) ==
    IF Byte(m, str + MCL_STRING_FIELD_REF_COUNT) = 1
    THEN string_free(m, str)
    ELSE m

\* faulty variant: the string is freed while one reference remains
string_unref_early(m, str) ==
    IF Byte(m, str + MCL_STRING_FIELD_REF_COUNT) <= 2
    THEN string_free(m, str)
    ELSE WrByte(m, str + MCL_STRING_FIELD_REF_COUNT,
                Byte(m, str + MCL_STRING_FIELD_REF_COUNT) - 1)

string_unref(m, str) ==
    IF Byte(m, str + MCL_STRING_FIELD_REF_COUNT) = 1
    THEN string_free(m, str)
    ELSE WrByte(m, str + MCL_STRING_FIELD_REF_COUNT,
                Byte(m, str + MCL_STRING_FIELD_REF_COUNT) - 1)

\* in the owners' record h.allocs, the allocation that started at str in m
\* has the size its owner asked for
Resize(m, h, str, size) ==
    [i \in 1 .. Len(h.allocs) |->
        IF i \in AllocAt(m, str) THEN [h.allocs[i] EXCEPT !.size = size]
        ELSE h.allocs[i]]

string_grow(m, str, new_len) ==
    LET current_len == string_len(m, str)
        delta == size_t(new_len - current_len)
    IN  IF heap_space(m) < delta
        THEN except_throw(m, MCL_RESULT_OUT_OF_MEMORY)
        ELSE LET g == heap_grow(m, str, string_size(current_len),
                                string_size(new_len))
                 \* str[MCL_STRING_FIELD_LENGTH] = new_len stores one byte
                 w == WrByte(g, str + MCL_STRING_FIELD_LENGTH, new_len % 256)
             IN  [WrByte(w, string_chars(str) + new_len, 0) EXCEPT
                    !.allocs = Resize(m, g, str, string_size(new_len))]

string_shrink(m, str, new_len) ==
    LET current_len == string_len(m, str)
        g == heap_shrink(m, str, string_size(current_len),
                         string_size(new_len))
        w == WrByte(g, str + MCL_STRING_FIELD_LENGTH, new_len % 256)
    IN  [WrByte(w, string_chars(str) + new_len, 0) EXCEPT
            !.allocs = Resize(m, g, str, string_size(new_len))]

\* memcpy(dest, content, len): content is a sequence of bytes
memcpy(m, dest, content, len) ==
    Let(m, LAMBDA c :
        Let([a \in DOMAIN c.mem \cap (dest .. (dest + len - 1)) |->
                content[a - dest + 1] % 256] @@ c.mem,
            LAMBDA bytes :
                [c EXCEPT !.mem = bytes,
                          !.slots = Reread(c.slots, bytes, dest, dest + len)]))

string_new_with_len(m, content, len) ==
    LET a == string_alloc(m, len)
    IN  IF a.thrown # MCL_RESULT_OK THEN a
        ELSE memcpy(a, string_chars(a.ret), content, len)

\* contents is the byte sequence before the terminating NUL
string_new(m, contents) ==
    LET len == Len(contents)
    IN  IF len > MCL_MAX_STRING_LEN THEN [m EXCEPT !.aborted = TRUE]
        ELSE string_new_with_len(m, contents, len)

\* chars[i] read through a const char*: plain char is signed or unsigned,
\* as the build has it
Char(m, a) ==
    IF m.char_signed /\ Byte(m, a) >= 128 THEN Byte(m, a) - 256
    ELSE Byte(m, a)

\* the for loop from index i on: it returns at the first index below both
\* lengths where the chars differ; without one, the lengths decide
compare_from(m, chars_a, chars_b, len_a, len_b, i) ==
    LET n == IF len_a < len_b THEN len_a ELSE len_b
        differ == {k \in i .. (n - 1) :
                      Char(m, chars_a + k) # Char(m, chars_b + k)}
    IN  IF differ # {}
        THEN LET k == CHOOSE k \in differ : \A j \in differ : k <= j
             IN  IF Char(m, chars_a + k) < Char(m, chars_b + k) THEN 0 - 1
                 ELSE 1
        ELSE IF len_a < len_b THEN 0 - 1
             ELSE IF len_a > len_b THEN 1 ELSE 0

\* faulty variant: the lengths are not compared after a common prefix
string_compare_prefix_only(m, a, b) ==
    LET n == IF string_len(m, a) < string_len(m, b)
             THEN string_len(m, a) ELSE string_len(m, b)
    IN  compare_from(m, string_chars(a), string_chars(b), n, n, 0)

string_compare(m, a, b) ==
    compare_from(m, string_chars(a), string_chars(b),
                 string_len(m, a), string_len(m, b), 0)

\* ======== EXCEPTION HANDLING ========

\* faulty variant: a nested except_try does not install its own landing site
except_try_begin_shared_jb(m, depth) ==
    [jb |-> IF m.jb = NULL THEN depth + 1 ELSE m.jb, saved_jb |-> m.jb,
     saved_stack_ptr |-> m.stack_ptr, saved_frame_ptr |-> m.frame_ptr,
     heap_space0 |-> heap_space(m), stack_height0 |-> stack_height(m)]

\* the locals of an except_try invocation; its jmp_buf is named by its
\* position on the C stack (depth + 1).  heap_space0 and stack_height0 record
\* heap_space() and stack_height() at entry for the properties below.
except_try_begin(m, depth) ==
    [jb |-> depth + 1, saved_jb |-> m.jb,
     saved_stack_ptr |-> m.stack_ptr, saved_frame_ptr |-> m.frame_ptr,
     heap_space0 |-> heap_space(m), stack_height0 |-> stack_height(m)]

RECURSIVE unwind(_, _)
\* while(ctx->stack_ptr < saved_stack_ptr) { pop; unref if heap_contains }
unwind(m, saved_stack_ptr) ==
    Let(m, LAMBDA c :
        IF c.stack_ptr < saved_stack_ptr
        THEN LET p == stack_pop(c)
             IN  unwind(IF heap_contains(p, p.ret) THEN string_unref(p, p.ret)
                        ELSE p, saved_stack_ptr)
        ELSE c)

\* faulty variant: the stack is cut back to the mark, nothing is released
except_try_catch_no_release(m, fr) ==
    [m EXCEPT !.stack_ptr = IF m.stack_ptr < fr.saved_stack_ptr
                            THEN fr.saved_stack_ptr ELSE m.stack_ptr,
              !.frame_ptr = fr.saved_frame_ptr]

\* faulty variant: the unwind loop stops one entry short of the mark
except_try_catch_short(m, fr) ==
    [unwind(m, fr.saved_stack_ptr - SlotSize)
        EXCEPT !.frame_ptr = fr.saved_frame_ptr]

\* faulty variant: frame_ptr is left where the callback put it
except_try_catch_keep_frame(m, fr) == unwind(m, fr.saved_stack_ptr)

\* the else branch of except_try: setjmp returned a non-zero result
except_try_catch(m, fr) ==
    [unwind(m, fr.saved_stack_ptr) EXCEPT !.frame_ptr = fr.saved_frame_ptr]

\* faulty variant: the saved marks are restored on every return, so a normal
\* return cuts the stack back as a raise does
except_try_end_restores(m, fr) ==
    [m EXCEPT !.jb = fr.saved_jb, !.stack_ptr = fr.saved_stack_ptr,
              !.frame_ptr = fr.saved_frame_ptr]

\* faulty variant: the landing site of the finished except_try stays current
except_try_end_keep_jb(m, fr) == m

\* the tail of except_try: ctx->jb = saved_jb
except_try_end(m, fr) == [m EXCEPT !.jb = fr.saved_jb]

\* ======== FRAME PRIMITIVES ========

\* frame_push that checks for space only after pushing the link
frame_push_late_check(m) ==
    LET a == stack_push(m, m.frame_ptr)
    IN  IF stack_space(a) < 1
        THEN except_throw(a, MCL_RESULT_OUT_OF_MEMORY)
        ELSE stack_push([a EXCEPT !.frame_ptr = a.stack_ptr - SlotSize],
                        a.stack_ptr - SlotSize)

\* frame_push that leaves the self slot of the header empty
frame_push_no_sentinel(m) ==
    IF stack_space(m) < 2
    THEN except_throw(m, MCL_RESULT_OUT_OF_MEMORY)
    ELSE LET a == stack_push(m, m.frame_ptr)
         IN  stack_push([a EXCEPT !.frame_ptr = a.stack_ptr - SlotSize],
                        NULL)

frame_push(m) ==
    IF stack_space(m) < 2
    THEN except_throw(m, MCL_RESULT_OUT_OF_MEMORY)
    ELSE LET a == stack_push(m, m.frame_ptr)
             b == [a EXCEPT !.frame_ptr = a.stack_ptr - SlotSize]
         IN  stack_push(b, b.frame_ptr)

RECURSIVE frame_pop_loop(_)
frame_pop_loop(m) ==
    Let(m, LAMBDA c :
        IF c.stack_ptr <= c.frame_ptr
        THEN LET p == stack_pop(c)
             IN  frame_pop_loop(IF heap_contains(p, p.ret)
                                THEN string_unref(p, p.ret) ELSE p)
        ELSE c)

\* frame_pop that drops the frame's entries without releasing them
frame_pop_no_release(m) ==
    [m EXCEPT !.stack_ptr = m.frame_ptr + 2 * SlotSize,
              !.frame_ptr = Slot(m, m.frame_ptr + SlotSize), !.ret = NULL]

frame_pop(m) ==
    LET p == stack_pop(frame_pop_loop(m))
    IN  [p EXCEPT !.frame_ptr = p.ret, !.ret = NULL]

RECURSIVE seek_down(_, _, _)
\* level > 0: do { frame = frame[1]; ... level--; } while(level > 0)
seek_down(m, frame, level) ==
    LET f == Slot(m, frame + SlotSize)
    IN  IF f = m.stack_end THEN NULL
        ELSE IF level - 1 > 0 THEN seek_down(m, f, level - 1) ELSE f

RECURSIVE seek_collect(_, _)
\* level < 0: do { check space; push frame; frame = frame[1]; }
\*            while(frame < stack_end)
seek_collect(m, frame) ==
    IF stack_space(m) < 1
    THEN except_throw(m, MCL_RESULT_OUT_OF_MEMORY)
    ELSE LET p == stack_push(m, frame)
             f == Slot(p, frame + SlotSize)
         IN  IF f < p.stack_end THEN seek_collect(p, f) ELSE p

\* frame_seek that follows one link too many from the top
frame_seek_one_further(m, level) ==
    IF level >= 0
    THEN [m EXCEPT !.ret = seek_down(m, m.frame_ptr, level + 1)]
    ELSE m

\* frame_seek that indexes the frame list from its first entry, the current
\* frame, instead of its last
frame_seek_list_reversed(m, level) ==
    IF level >= 0 THEN [m EXCEPT !.ret = m.frame_ptr]
    ELSE LET c == seek_collect(m, m.frame_ptr)
         IN  IF c.thrown # MCL_RESULT_OK THEN c
             ELSE [c EXCEPT
                     !.ret = Slot(c, m.stack_ptr + level * SlotSize),
                     !.stack_ptr = m.stack_ptr]

\* frame_seek that leaves the frame list of a negative level on the stack
frame_seek_keeps_list(m, level) ==
    IF level > 0 THEN [m EXCEPT !.ret = seek_down(m, m.frame_ptr, level)]
    ELSE IF level < 0
    THEN LET c == seek_collect(m, m.frame_ptr)
             lv == (0 - 1) - level
         IN  IF c.thrown # MCL_RESULT_OK THEN c
             ELSE [c EXCEPT
                     !.ret = IF lv >= (m.stack_ptr - c.stack_ptr)
                                        \div SlotSize
                             THEN NULL
                             ELSE Slot(c, c.stack_ptr + lv * SlotSize)]
    ELSE [m EXCEPT !.ret = m.frame_ptr]

frame_seek(m, level) ==
    IF level > 0 THEN [m EXCEPT !.ret = seek_down(m, m.frame_ptr, level)]
    ELSE IF level < 0
    THEN LET saved_stack_ptr == m.stack_ptr
             c == seek_collect(m, m.frame_ptr)
             lv == (0 - 1) - level
         IN  IF c.thrown # MCL_RESULT_OK THEN c
             ELSE [c EXCEPT
                     !.ret = IF lv >= (saved_stack_ptr - c.stack_ptr)
                                        \div SlotSize
                             THEN NULL
                             ELSE Slot(c, c.stack_ptr + lv * SlotSize),
                     !.stack_ptr = saved_stack_ptr]
    ELSE [m EXCEPT !.ret = m.frame_ptr]

\* ======== CONTEXT ========

\* ctx_construct that creates the procedure table frame only
ctx_construct_one_frame(m) == frame_push(m)

ctx_construct(m) ==
    LET a == frame_push(m)
    IN  IF a.thrown # MCL_RESULT_OK THEN a ELSE frame_push(a)

\* except_try(mcl, ctx_construct) as mcl_init calls it
except_try(m, depth) ==
    LET fr == except_try_begin(m, depth)
        c == ctx_construct([m EXCEPT !.jb = fr.jb])
    IN  IF c.thrown = MCL_RESULT_OK THEN except_try_end(c, fr)
        ELSE except_try_end(except_try_catch(c, fr), fr)

\* a validation that refuses MCL_MIN_HEAP_ENTRIES entries as well
mcl_init_refuses_min(heap, n_heap_entries) ==
    heap = NULL \/ n_heap_entries <= MCL_MIN_HEAP_ENTRIES

\* the validation of mcl_init: TRUE when the arguments are refused
mcl_init_refuses(heap, n_heap_entries) ==
    heap = NULL \/ n_heap_entries < MCL_MIN_HEAP_ENTRIES

mcl_init(m, heap, n_heap_entries) ==
    except_try([m EXCEPT !.heap_start = heap, !.heap_ptr = heap,
                         !.stack_end = heap + n_heap_entries * SlotSize,
                         !.stack_ptr = heap + n_heap_entries * SlotSize,
                         !.frame_ptr = heap + n_heap_entries * SlotSize,
                         !.jb = NULL], 0)

\* ======== the callers: inputs, preconditions, bookkeeping ========

\* values a caller pushes that address neither the heap nor the stack
PlainVals == {NULL, 1}
\* string contents (bytes before the terminating NUL)
Contents == {<<>>, <<65, 66>>}
\* a short length, and one that needs the length field's high byte
StrLens == {1, 256}
\* the lengths that exactly fill the free bytes, and exceed them by one
EdgeLens(m) ==
    {len \in {heap_space(m) - 4, heap_space(m) - 3} :
        len >= 0 /\ len <= MCL_MAX_STRING_LEN}
\* a content longer than one length byte can count
LongContent == [i \in 1 .. 257 |-> 65 + (i % 7)]
\* a content of MCL_MAX_STRING_LEN + 1 bytes
OverLongContent == [i \in 1 .. (MCL_MAX_STRING_LEN + 1) |-> 65]
Levels == (0 - 3) .. 3
Kinds == {MCL_RESULT_OUT_OF_MEMORY, MCL_RESULT_RUNTIME_ERROR,
          MCL_RESULT_SYNTAX_ERROR}
Heaps == {NULL, RegionBase}
Entries == {MCL_MIN_HEAP_ENTRIES - 1, MCL_MIN_HEAP_ENTRIES, MaxEntries}

\* a size that leaves a free gap of one slot and a half
NearlyAll(m) == heap_space(m) - SlotSize - 4
\* sizes handed to heap_alloc
AllocSizes(m) == {2, 3, NearlyAll(m)}

LiveSlots(m) == {a \in DOMAIN m.slots : stack_contains(m, a)}

\* every heap pointer in the slots [lo, hi) is the address of a string: what
\* the release walks of except_try and frame_pop require of the stack
\* (string_unref of anything else is undefined)
ReleaseSafe(m, lo, hi) ==
    \A a \in LiveSlots(m) :
        (a >= lo /\ a < hi /\ heap_contains(m, m.slots[a]))
            => IsString(m, m.slots[a])

\* the frame chain from frame can be walked without leaving the stack
RECURSIVE ChainOK(_, _)
ChainOK(m, frame) ==
    \/ frame = m.stack_end
    \/ /\ stack_contains(m, frame)
       /\ stack_contains(m, frame + SlotSize)
       /\ Slot(m, frame + SlotSize) > frame
       /\ ChainOK(m, Slot(m, frame + SlotSize))

Op(name, a, b, c) == [op |-> name, a |-> a, b |-> b, c |-> c]

NoTry ==
    [jb |-> NULL, saved_jb |-> NULL, saved_stack_ptr |-> NULL,
     saved_frame_ptr |-> NULL, heap_space0 |-> 0, stack_height0 |-> 0,
     raise_stack_ptr |-> NULL, raise_frame_ptr |-> NULL, raise_top |-> NULL,
     raise_str |-> <<>>]

\* the bytes of the string object at str: count, length field and chars
StrBytes(m, str) ==
    [k \in 1 .. (4 + string_len(m, str)) |-> Byte(m, str + k - 1)]

\* what the except_try with locals fr finds when it is resumed or returns
Returned(fr) ==
    [jb |-> fr.jb, saved_jb |-> fr.saved_jb,
     saved_stack_ptr |-> fr.saved_stack_ptr,
     saved_frame_ptr |-> fr.saved_frame_ptr,
     heap_space0 |-> fr.heap_space0, stack_height0 |-> fr.stack_height0,
     raise_stack_ptr |-> stack_ptr, raise_frame_ptr |-> frame_ptr,
     raise_top |-> Slot(Cur, stack_ptr),
     raise_str |-> IF IsString(Cur, Slot(Cur, stack_ptr))
                   THEN StrBytes(Cur, Slot(Cur, stack_ptr)) ELSE <<>>]

NoString == [str |-> NULL, heap_space0 |-> 0, acquires |-> 0, releases |-> 0]

\* the creator's account of the string created last, after the operation op
\* with effect m
Account(m, op) ==
    IF op.op \in {"string_alloc", "string_new_with_len", "string_new"}
    THEN [str |-> m.ret, heap_space0 |-> heap_space(Cur),
          acquires |-> 0, releases |-> 0]
    ELSE IF op.op = "push_string"
    THEN [str |-> op.b, heap_space0 |-> heap_space(Cur),
          acquires |-> 0, releases |-> 0]
    ELSE IF op.op = "string_ref" /\ op.a = made.str
    THEN [made EXCEPT !.acquires = made.acquires + 1]
    ELSE IF op.op = "string_unref" /\ op.a = made.str
    THEN [made EXCEPT !.releases = made.releases + 1]
    ELSE made

FrameRec(m0, m) ==
    [frame |-> m.frame_ptr, frame_ptr0 |-> m0.frame_ptr,
     stack_ptr0 |-> m0.stack_ptr, heap_space0 |-> heap_space(m0)]

\* the records of the frames whose headers are still on the stack of m
OnStack(fs, m) == SelectSeq(fs, LAMBDA r : r.frame >= m.stack_ptr)

\* the callers' record of the frames after the operation op with effect m
Track(m, op) ==
    OnStack(IF op.op = "frame_push" THEN Append(frames, FrameRec(Cur, m))
            ELSE IF op.op = "frame_pop" /\ frames # <<>>
            THEN SubSeq(frames, 1, Len(frames) - 1)
            ELSE frames, m)

\* the effect m of a primitive becomes the next state; a primitive that
\* called except_throw leaves the program at the landing site of ctx->jb,
\* one that called abort() leaves it dead, and one that made a call of
\* undefined behaviour leaves it where the source says nothing more about
\* it: the variables keep the values they had before the primitive and do
\* not describe the program from then on
Commit(m, op) ==
    /\ fuel > 0
    /\ m.thrown # MCL_RESULT_OK =>
          /\ jb \in 1 .. Len(cstack)
          /\ ReleaseSafe(m, m.stack_ptr, cstack[jb].saved_stack_ptr)
    /\ last' = op
    /\ fuel' = fuel - 1
    /\ \/ /\ m.undefined
          /\ pc' = "undefined"
          /\ UNCHANGED <<heap_ptr, stack_ptr, frame_ptr, mem, slots,
                         allocs, ret, thrown, made, frames>>
       \/ /\ ~m.undefined /\ m.aborted
          /\ pc' = "aborted"
          /\ UNCHANGED <<heap_ptr, stack_ptr, frame_ptr, mem, slots,
                         allocs, ret, thrown, made, frames>>
       \/ /\ ~m.undefined /\ ~m.aborted
          /\ heap_ptr' = m.heap_ptr
          /\ stack_ptr' = m.stack_ptr
          /\ frame_ptr' = m.frame_ptr
          /\ mem' = m.mem
          /\ slots' = m.slots
          /\ allocs' = m.allocs
          /\ ret' = m.ret
          /\ thrown' = m.thrown
          /\ pc' = IF m.thrown # MCL_RESULT_OK THEN "landing" ELSE "run"
          /\ made' = IF m.thrown # MCL_RESULT_OK THEN made
                     ELSE Account(m, op)
          /\ frames' = IF m.thrown # MCL_RESULT_OK THEN frames
                       ELSE Track(m, op)
    /\ UNCHANGED <<user_data, heap_start, stack_end, jb, cstack, result,
                   done, char_signed>>

Init0 ==
    /\ user_data = NULL
    /\ heap_start = NULL
    /\ heap_ptr = NULL
    /\ stack_end = NULL
    /\ stack_ptr = NULL
    /\ frame_ptr = NULL
    /\ jb = NULL
    /\ mem = [a \in ByteAddrs |-> 0]
    /\ slots = [a \in SlotAddrs |-> NULL]
    /\ cstack = <<>>
    /\ pc = "uninit"
    /\ thrown = MCL_RESULT_OK
    /\ result = MCL_RESULT_OK
    /\ ret = NULL
    /\ allocs = <<>>
    /\ last = Op("none", 0, 0, 0)
    /\ done = NoTry
    /\ made = NoString
    /\ frames = <<>>
    /\ char_signed = TRUE

Init == Init0 /\ fuel = MaxOps

\* ======== one action per operation ========

\* the records of the frames ctx_construct pushed on the way to m
InitialFrames(m) ==
    IF m.thrown # MCL_RESULT_OK THEN <<>>
    ELSE LET e == [m EXCEPT !.stack_ptr = m.stack_end,
                            !.frame_ptr = m.stack_end]
             a == frame_push(e)
         IN  <<FrameRec(e, a), FrameRec(a, frame_push(a))>>

op_mcl_init(heap, n, ud) ==
    /\ pc = "uninit"
    /\ last' = Op("mcl_init", heap, n, ud)
    /\ IF mcl_init_refuses(heap, n)
       THEN /\ result' = MCL_RESULT_OUT_OF_MEMORY
            /\ UNCHANGED <<user_data, heap_start, heap_ptr, stack_end,
                           stack_ptr, frame_ptr, jb, mem, slots, pc, frames>>
       ELSE LET m == mcl_init(Cur, heap, n)
            IN  /\ user_data' = ud
                /\ frames' = InitialFrames(m)
                /\ heap_start' = m.heap_start
                /\ heap_ptr' = m.heap_ptr
                /\ stack_end' = m.stack_end
                /\ stack_ptr' = m.stack_ptr
                /\ frame_ptr' = m.frame_ptr
                /\ jb' = m.jb
                /\ mem' = m.mem
                /\ slots' = m.slots
                /\ result' = m.thrown
                /\ pc' = IF m.thrown = MCL_RESULT_OK THEN "run" ELSE "uninit"
    /\ UNCHANGED <<cstack, thrown, ret, allocs, done, made, char_signed, fuel>>

op_mcl_user_data ==
    /\ pc = "run"
    /\ Commit([Cur EXCEPT !.ret = user_data], Op("mcl_user_data", 0, 0, 0))

op_stack_push(v) ==
    /\ pc = "run"
    /\ stack_space(Cur) >= 1
    /\ stack_height(Cur) < MaxHeight
    /\ Commit(stack_push(Cur, v), Op("stack_push", v, 0, 0))

op_stack_pop ==
    /\ pc = "run"
    /\ stack_height(Cur) > 0
    /\ Commit(stack_pop(Cur), Op("stack_pop", 0, 0, 0))

op_stack_pop_n(n) ==
    /\ pc = "run"
    /\ stack_height(Cur) >= n
    /\ Commit(stack_pop_n(Cur, n), Op("stack_pop_n", n, 0, 0))

op_stack_swap(a, b) ==
    /\ pc = "run"
    /\ a \in LiveSlots(Cur) /\ b \in LiveSlots(Cur)
    /\ Commit(stack_swap(Cur, a, b), Op("stack_swap", a, b, 0))

op_heap_alloc(size) ==
    /\ pc = "run"
    /\ size > 0
    /\ heap_space(Cur) >= size
    /\ Len(allocs) < MaxAllocs
    /\ Commit([heap_alloc(Cur, size) EXCEPT
                 !.allocs = Append(allocs, [start |-> heap_ptr, size |-> size,
                                            str |-> FALSE])],
              Op("heap_alloc", size, 0, 0))

\* the owner of the raw allocation i writes to it: byte k becomes tag + k
op_fill(i, tag) ==
    /\ pc = "run"
    /\ i \in 1 .. Len(allocs) /\ ~allocs[i].str
    /\ LET p == AllocStart(Cur, i)
           bytes == [a \in DOMAIN mem |->
                       IF a >= p /\ a < p + allocs[i].size
                       THEN (tag + (a - p)) % 256 ELSE mem[a]]
           m == [Cur EXCEPT !.mem = bytes, !.slots = SlotsOf(bytes)]
       IN  /\ heap_contains(Cur, p) /\ p + allocs[i].size <= heap_ptr
           /\ mem[p] # tag
           /\ Commit(m, Op("fill", p, tag, 0))

op_heap_grow(i, new_size) ==
    /\ pc = "run"
    /\ i \in 1 .. Len(allocs) /\ ~allocs[i].str
    /\ LET p == AllocStart(Cur, i)
           old_size == allocs[i].size
       IN  /\ heap_contains(Cur, p) /\ p + old_size <= heap_ptr
           /\ new_size > old_size
           /\ heap_space(Cur) >= new_size - old_size
           /\ Commit([heap_grow(Cur, p, old_size, new_size) EXCEPT
                        !.allocs[i].size = new_size],
                     Op("heap_grow", p, old_size, new_size))

op_heap_shrink(i, new_size) ==
    /\ pc = "run"
    /\ i \in 1 .. Len(allocs) /\ ~allocs[i].str
    /\ LET p == AllocStart(Cur, i)
           old_size == allocs[i].size
       IN  /\ heap_contains(Cur, p) /\ p + old_size <= heap_ptr
           /\ new_size < old_size /\ new_size > 0
           /\ Commit([heap_shrink(Cur, p, old_size, new_size) EXCEPT
                        !.allocs[i].size = new_size],
                     Op("heap_shrink", p, old_size, new_size))

op_heap_free(i) ==
    /\ pc = "run"
    /\ i \in 1 .. Len(allocs) /\ ~allocs[i].str
    /\ LET p == AllocStart(Cur, i)
           size == allocs[i].size
           h == heap_free(Cur, p, size)
       IN  /\ heap_contains(Cur, p) /\ p + size <= heap_ptr
           /\ size > 0
           /\ Commit([h EXCEPT !.allocs = RemoveAt(h.allocs, i)],
                     Op("heap_free", p, size, 0))

op_string_alloc(len) ==
    /\ pc = "run"
    /\ len <= MCL_MAX_STRING_LEN
    /\ Len(allocs) < MaxAllocs
    /\ Commit(string_alloc(Cur, len), Op("string_alloc", len, 0, 0))

op_string_new_with_len(content) ==
    /\ pc = "run"
    /\ Len(content) <= MCL_MAX_STRING_LEN
    /\ Len(allocs) < MaxAllocs
    /\ Commit(string_new_with_len(Cur, content, Len(content)),
              Op("string_new_with_len", Len(content), content, 0))

op_string_new(contents) ==
    /\ pc = "run"
    /\ Len(allocs) < MaxAllocs
    \* an over-long content is recorded by its length alone
    /\ Commit(string_new(Cur, contents),
              Op("string_new", Len(contents),
                 IF Len(contents) > MCL_MAX_STRING_LEN THEN <<>> ELSE contents,
                 0))

op_string_ref(i) ==
    /\ pc = "run"
    /\ i \in 1 .. Len(allocs) /\ allocs[i].str
    /\ heap_contains(Cur, AllocStart(Cur, i))
    /\ Commit(string_ref(Cur, AllocStart(Cur, i)),
              Op("string_ref", AllocStart(Cur, i), 0, 0))

\* the caller gives up the reference it holds in ret
op_string_unref ==
    /\ pc = "run"
    /\ heap_contains(Cur, ret) /\ IsString(Cur, ret)
    /\ Commit(string_unref(Cur, ret), Op("string_unref", ret, 0, 0))

op_string_grow(i, new_len) ==
    /\ pc = "run"
    /\ i \in 1 .. Len(allocs) /\ allocs[i].str
    /\ LET s == AllocStart(Cur, i)
       IN  /\ heap_contains(Cur, s)
           /\ new_len <= MCL_MAX_STRING_LEN
           /\ new_len > string_len(Cur, s)
           /\ Commit(string_grow(Cur, s, new_len),
                     Op("string_grow", s, new_len, string_len(Cur, s)))

op_string_shrink(i, new_len) ==
    /\ pc = "run"
    /\ i \in 1 .. Len(allocs) /\ allocs[i].str
    /\ LET s == AllocStart(Cur, i)
       IN  /\ heap_contains(Cur, s)
           /\ new_len >= 0
           /\ new_len < string_len(Cur, s)
           /\ Commit(string_shrink(Cur, s, new_len),
                     Op("string_shrink", s, new_len, string_len(Cur, s)))

op_frame_push ==
    /\ pc = "run"
    /\ stack_height(Cur) + 2 <= MaxHeight \/ stack_space(Cur) < 2
    /\ Commit(frame_push(Cur), Op("frame_push", 0, 0, 0))

op_frame_pop ==
    /\ pc = "run"
    /\ stack_height(Cur) >= 2
    /\ stack_contains(Cur, frame_ptr)
    /\ stack_contains(Cur, frame_ptr + SlotSize)
    /\ ReleaseSafe(Cur, stack_ptr, frame_ptr)
    /\ Commit(frame_pop(Cur), Op("frame_pop", 0, 0, 0))

op_frame_seek(level) ==
    /\ pc = "run"
    /\ ChainOK(Cur, frame_ptr)
    /\ level # 0 => frame_ptr # stack_end
    /\ Commit(frame_seek(Cur, level), Op("frame_seek", level, 0, 0))

\* except_try up to the call of func
op_except_try ==
    /\ pc = "run"
    /\ fuel > 0
    /\ Len(cstack) < MaxDepth
    /\ LET fr == except_try_begin(Cur, Len(cstack))
       IN  /\ cstack' = Append(cstack, fr)
           /\ jb' = fr.jb
    /\ ret' = NULL
    /\ last' = Op("except_try", 0, 0, 0)
    /\ fuel' = fuel - 1
    /\ UNCHANGED <<user_data, heap_start, heap_ptr, stack_end, stack_ptr,
                   frame_ptr, mem, slots, pc, thrown, result, allocs, done,
                   made, frames, char_signed>>

\* func returns: except_try returns MCL_RESULT_OK
op_func_return ==
    /\ pc = "run"
    /\ fuel > 0
    /\ Len(cstack) > 0
    /\ LET fr == cstack[Len(cstack)]
           m == except_try_end(Cur, fr)
       IN  /\ jb' = m.jb
           /\ heap_ptr' = m.heap_ptr
           /\ stack_ptr' = m.stack_ptr
           /\ frame_ptr' = m.frame_ptr
           /\ mem' = m.mem
           /\ slots' = m.slots
           /\ allocs' = m.allocs
           /\ cstack' = SubSeq(cstack, 1, Len(cstack) - 1)
           /\ result' = MCL_RESULT_OK
           /\ done' = Returned(fr)
    /\ last' = Op("except_try_return", MCL_RESULT_OK, 0, 0)
    /\ ret' = NULL
    /\ fuel' = fuel - 1
    /\ UNCHANGED <<user_data, heap_start, stack_end, pc, thrown, made, frames,
                   char_signed>>

\* func calls except_throw itself
op_except_throw(kind) ==
    /\ pc = "run"
    /\ kind # MCL_RESULT_OK
    /\ jb # NULL
    /\ Commit(except_throw(Cur, kind), Op("except_throw", kind, 0, 0))

\* longjmp lands in the except_try that owns ctx->jb: it unwinds, restores
\* and returns the thrown value; the C frames above it are gone
op_landing ==
    /\ pc = "landing"
    /\ jb \in 1 .. Len(cstack)
    /\ LET fr == cstack[jb]
           m == except_try_end(except_try_catch(Cur, fr), fr)
       IN  \/ /\ m.undefined
              /\ pc' = "undefined"
              /\ UNCHANGED <<heap_ptr, stack_ptr, frame_ptr, mem, slots,
                             allocs, jb, cstack, result, done, thrown,
                             frames>>
           \/ /\ ~m.undefined
              /\ frames' = OnStack(frames, m)
              /\ heap_ptr' = m.heap_ptr
              /\ stack_ptr' = m.stack_ptr
              /\ frame_ptr' = m.frame_ptr
              /\ mem' = m.mem
              /\ slots' = m.slots
              /\ allocs' = m.allocs
              /\ jb' = m.jb
              /\ cstack' = SubSeq(cstack, 1, jb - 1)
              /\ result' = thrown
              /\ done' = Returned(fr)
              /\ thrown' = MCL_RESULT_OK
              /\ pc' = "run"
    /\ last' = Op("except_try_return", thrown, 0, 0)
    /\ ret' = NULL
    /\ UNCHANGED <<user_data, heap_start, stack_end, made, char_signed, fuel>>

Next ==
    \/ \E heap \in Heaps, n \in Entries : op_mcl_init(heap, n, 1)
    \/ op_mcl_user_data
    \/ \E v \in PlainVals \cup {ret} : op_stack_push(v)
    \/ op_stack_pop
    \/ \E n \in 1 .. 2 : op_stack_pop_n(n)
    \/ op_stack_swap(stack_ptr, stack_ptr + SlotSize)
    \/ \E size \in AllocSizes(Cur) : op_heap_alloc(size)
    \/ \E i \in 1 .. Len(allocs) : op_fill(i, 65)
    \/ \E i \in 1 .. Len(allocs), d \in 1 .. 2 :
          op_heap_grow(i, allocs[i].size + d)
    \/ \E i \in 1 .. Len(allocs) : op_heap_shrink(i, allocs[i].size - 1)
    \/ \E i \in 1 .. Len(allocs) : op_heap_free(i)
    \/ \E len \in StrLens \cup EdgeLens(Cur) : op_string_alloc(len)
    \/ \E c \in Contents \cup {LongContent} : op_string_new_with_len(c)
    \/ \E c \in Contents \cup {LongContent, OverLongContent} : op_string_new(c)
    \/ \E i \in 1 .. Len(allocs) : op_string_ref(i)
    \/ op_string_unref
    \/ \E i \in 1 .. Len(allocs) :
          \E new_len \in {allocs[i].size - 3, 256} : op_string_grow(i, new_len)
    \/ \E i \in 1 .. Len(allocs) :
          \E new_len \in {allocs[i].size - 5, 0} : op_string_shrink(i, new_len)
    \/ op_frame_push
    \/ op_frame_pop
    \/ \E level \in Levels : op_frame_seek(level)
    \/ op_except_try
    \/ op_func_return
    \/ \E kind \in Kinds : op_except_throw(kind)
    \/ op_landing

Spec == Init /\ [][Next]_vars

\* ======== the test programs' statements and narrower specifications ========

\* stack_push(ctx, string_new_with_len(ctx, content, len)), one statement of
\* the callbacks of the unwind tests
op_push_string(content) ==
    /\ pc = "run"
    /\ Len(allocs) < MaxAllocs
    /\ stack_height(Cur) < MaxHeight
    /\ LET s == string_new_with_len(Cur, content, Len(content))
       IN  IF s.thrown # MCL_RESULT_OK
           THEN Commit(s, Op("push_string", Len(content), 0, 0))
           ELSE /\ stack_space(s) >= 1
                /\ Commit([stack_push(s, s.ret) EXCEPT !.ret = NULL],
                          Op("push_string", Len(content), s.ret, 0))

\* the slots the running callback pushed itself
OwnSlots ==
    {a \in LiveSlots(Cur) :
        Len(cstack) > 0 => a < cstack[Len(cstack)].saved_stack_ptr}

InitHeap == Init0 /\ fuel = HeapOps

\* the programs of test_heap_grow, test_heap_shrink and test_heap_free:
\* raw allocations, their addresses pushed, filled, then resized or freed
NextHeap ==
    \/ op_mcl_init(RegionBase, MCL_MIN_HEAP_ENTRIES, 1)
    \/ \E size \in {2, 3} : op_heap_alloc(size)
    \/ ret # NULL /\ op_stack_push(ret)
    \/ \E i \in 1 .. Len(allocs) : op_fill(i, 65 + 16 * i)
    \/ \E i \in 1 .. Len(allocs) : op_heap_grow(i, allocs[i].size + 2)
    \/ \E i \in 1 .. Len(allocs) : op_heap_shrink(i, allocs[i].size - 1)
    \/ \E i \in 1 .. Len(allocs) : op_heap_free(i)

SpecHeap == InitHeap /\ [][NextHeap]_vars

InitStrings == Init0 /\ fuel = StringOps

\* the programs of test_except_throw_unwind: callbacks that push strings,
\* reorder their own entries, nest and throw
NextStrings ==
    \/ op_mcl_init(RegionBase, MCL_MIN_HEAP_ENTRIES, 1)
    \/ op_except_try
    \/ \E c \in Contents : op_push_string(c)
    \/ \E b \in OwnSlots : stack_ptr < b /\ op_stack_swap(stack_ptr, b)
    \/ \E kind \in Kinds : op_except_throw(kind)
    \/ op_landing
    \/ op_func_return

SpecStrings == InitStrings /\ [][NextStrings]_vars

InitUnwind == Init0 /\ fuel = UnwindOps

\* callbacks that push and pop entries and frames, nest and throw
NextUnwind ==
    \/ op_mcl_init(RegionBase, MCL_MIN_HEAP_ENTRIES, 1)
    \/ op_except_try
    \/ op_stack_push(1)
    \/ op_push_string(<<65, 66>>)
    \/ op_stack_pop
    \/ op_frame_push
    \/ op_frame_pop
    \/ \E kind \in {MCL_RESULT_OUT_OF_MEMORY, MCL_RESULT_RUNTIME_ERROR} :
          op_except_throw(kind)
    \/ op_landing
    \/ op_func_return

SpecUnwind == InitUnwind /\ [][NextUnwind]_vars

\* string_unref(ctx, str) with str a local of the caller, as in
\* test_string_ref_unref
op_string_unref_local(i) ==
    /\ pc = "run"
    /\ i \in 1 .. Len(allocs) /\ allocs[i].str
    /\ heap_contains(Cur, AllocStart(Cur, i))
    /\ Commit(string_unref(Cur, AllocStart(Cur, i)),
              Op("string_unref", AllocStart(Cur, i), 0, 0))

InitRef == Init0 /\ fuel = RefOps

\* the program of test_string_ref_unref: one string, acquired and released
NextRef ==
    \/ op_mcl_init(RegionBase, MCL_MIN_HEAP_ENTRIES, 1)
    \/ made.str = NULL /\ op_string_alloc(2)
    \/ \E i \in 1 .. Len(allocs) : op_string_ref(i)
    \/ \E i \in 1 .. Len(allocs) : op_string_unref_local(i)

SpecRef == InitRef /\ [][NextRef]_vars

InitRoots == Init0 /\ fuel = RootOps

\* callers that keep their strings on the stack (created and pushed in one
\* statement, reordered above the current frame's header, released by the
\* unwinder or by frame_pop), next to
\* callers that hold a string in a local only
NextRoots ==
    \/ op_mcl_init(RegionBase, MCL_MIN_HEAP_ENTRIES, 1)
    \/ op_except_try
    \/ \E c \in Contents : op_push_string(c)
    \/ \E b \in OwnSlots :
          stack_ptr < b /\ b < frame_ptr /\ op_stack_swap(stack_ptr, b)
    \/ op_frame_push
    \/ op_frame_pop
    \/ op_except_throw(MCL_RESULT_OUT_OF_MEMORY)
    \/ op_landing
    \/ op_func_return
    \/ op_string_alloc(1)
    \/ \E i \in 1 .. Len(allocs) : op_string_ref(i)

SpecRoots == InitRoots /\ [][NextRoots]_vars

\* the values pushed by test_stack_push_pop: they address no heap byte
StackVals == {1, 2}

InitStack == Init0 /\ fuel = StackOps

\* the programs of test_stack_push_pop and test_stack_pop_n, on an empty
\* heap and on one that leaves room for two more entries
NextStack ==
    \/ op_mcl_init(RegionBase, MCL_MIN_HEAP_ENTRIES, 1)
    \/ allocs = <<>> /\ op_heap_alloc(NearlyAll(Cur) - SlotSize)
    \/ \E v \in StackVals : op_stack_push(v)
    \/ op_stack_pop
    \/ \E n \in 1 .. 2 : op_stack_pop_n(n)

SpecStack == InitStack /\ [][NextStack]_vars

\* frame_push(&m_ctx), stack_push(&m_ctx, v) and the push of a fresh string,
\* as the frame tests issue them: as often as the region has room
frame_push_stmt ==
    /\ pc = "run"
    /\ Commit(frame_push(Cur), Op("frame_push", 0, 0, 0))

stack_push_stmt(v) ==
    /\ pc = "run"
    /\ stack_space(Cur) >= 1
    /\ Commit(stack_push(Cur, v), Op("stack_push", v, 0, 0))

push_string_stmt(content) ==
    /\ pc = "run"
    /\ Len(allocs) < MaxAllocs
    /\ LET s == string_new_with_len(Cur, content, Len(content))
       IN  IF s.thrown # MCL_RESULT_OK
           THEN Commit(s, Op("push_string", Len(content), 0, 0))
           ELSE /\ stack_space(s) >= 1
                /\ Commit([stack_push(s, s.ret) EXCEPT !.ret = NULL],
                          Op("push_string", Len(content), s.ret, 0))

FrameLevels == (0 - MaxLevel - 1) .. MaxLevel

InitFrames == Init0 /\ fuel = FrameOps

\* the programs of test_frame_push_pop, test_frame_seek_from_top and
\* test_frame_seek_from_base, outside and inside one except_try: frames
\* pushed and popped, entries and fresh strings pushed into them, frames
\* looked up from the top and from the base
NextFrames ==
    \/ op_mcl_init(RegionBase, MCL_MIN_HEAP_ENTRIES, 1)
    \/ cstack = <<>> /\ op_except_try
    \/ frame_push_stmt
    \/ stack_push_stmt(NULL)
    \/ push_string_stmt(<<65, 66>>)
    \/ op_frame_pop
    \/ \E level \in FrameLevels : op_frame_seek(level)
    \/ op_landing

SpecFrames == InitFrames /\ [][NextFrames]_vars

\* the user_data pointers handed to mcl_init, and the values an mcl_t that
\* was never initialised may hold
UserData == {NULL, 1, 2}
Garbage == {NULL, 3}

\* the context is memory of the caller that nothing has written yet
InitInit ==
    /\ user_data \in Garbage
    /\ heap_start \in Garbage
    /\ heap_ptr \in Garbage
    /\ stack_end = NULL
    /\ stack_ptr = NULL
    /\ frame_ptr = NULL
    /\ jb = NULL
    /\ slots \in {[a \in SlotAddrs |-> v] : v \in Garbage}
    /\ mem = BytesOf(slots)
    /\ cstack = <<>>
    /\ pc = "uninit"
    /\ thrown = MCL_RESULT_OK
    /\ result = MCL_RESULT_OK
    /\ ret = NULL
    /\ allocs = <<>>
    /\ last = Op("none", 0, 0, 0)
    /\ done = NoTry
    /\ made = NoString
    /\ frames = <<>>
    /\ char_signed = TRUE
    /\ fuel = InitOps

\* the programs of test_init and test_init_user_data, and what a host does
\* first with a context: mcl_init with good and bad arguments, the
\* user_data query, first pushes and pops
NextInit ==
    \/ \E heap \in Heaps, n \in Entries, ud \in UserData :
          op_mcl_init(heap, n, ud)
    \/ op_mcl_user_data
    \/ \E v \in PlainVals : stack_push_stmt(v)
    \/ op_stack_pop
    \/ frame_push_stmt
    \/ op_frame_pop

SpecInit == InitInit /\ [][NextInit]_vars

\* 16-bit values: the ends of the range, and values around the byte and
\* sign boundaries
PackValues == {0, 1, 255, 256, 258, 4660, 32767, 32768, 65280, 65535}
\* destinations: slot-aligned, odd, and the last two bytes of memory
PackDests ==
    {RegionBase, RegionBase + 1, RegionBase + 2,
     RegionBase + MaxEntries * SlotSize - 2}
\* what the destination's surroundings hold beforehand
PackFill == {0, 165, 255}

\* the arguments are drawn; the bytes hold one of the fills
InitPack ==
    /\ user_data = NULL
    /\ heap_start = NULL
    /\ heap_ptr = NULL
    /\ stack_end = NULL
    /\ stack_ptr = NULL
    /\ frame_ptr = NULL
    /\ jb = NULL
    /\ cstack = <<>>
    /\ pc = "uninit"
    /\ thrown = MCL_RESULT_OK
    /\ result = MCL_RESULT_OK
    /\ ret = NULL
    /\ allocs = <<>>
    /\ done = NoTry
    /\ made = NoString
    /\ frames = <<>>
    /\ char_signed = TRUE
    /\ fuel = 0
    /\ \E dest \in PackDests, value \in PackValues, fill \in PackFill :
          /\ mem = [a \in ByteAddrs |-> fill]
          /\ last = Op("input", dest, value, fill)
    /\ slots = SlotsOf(mem)

op_pack_u16 ==
    /\ last.op = "input"
    /\ mem' = pack_u16(Cur, last.a, last.b).mem
    /\ slots' = pack_u16(Cur, last.a, last.b).slots
    /\ last' = [last EXCEPT !.op = "pack_u16"]
    /\ UNCHANGED <<user_data, heap_start, heap_ptr, stack_end, stack_ptr,
                   frame_ptr, jb, cstack, pc, thrown, result, ret,
                   allocs, done, made, frames, char_signed, fuel>>

op_unpack_u16 ==
    /\ last.op = "pack_u16"
    /\ ret' = unpack_u16(Cur, last.a)
    /\ last' = [last EXCEPT !.op = "unpack_u16"]
    /\ UNCHANGED <<user_data, heap_start, heap_ptr, stack_end, stack_ptr,
                   frame_ptr, jb, mem, slots, cstack, pc, thrown, result,
                   allocs, done, made, frames, char_signed, fuel>>

\* the loop body of test_pack_unpack_u16
NextPack == op_pack_u16 \/ op_unpack_u16

SpecPack == InitPack /\ [][NextPack]_vars

\* string contents to compare: empty, prefixes of one another, differing in
\* the first and in a later byte, bytes above 127, and one whose length
\* needs the high byte of the length field
CompareContents ==
    {<<>>, <<65>>, <<65, 66>>, <<65, 67>>, <<66>>, <<200>>, <<65, 200>>,
     [i \in 1 .. 256 |-> 65]}
\* the reference counts the two strings have
CompareCounts == {1, 2, UINT8_MAX}

\* memory without a context
Blank ==
    [heap_start |-> NULL, heap_ptr |-> NULL, stack_end |-> NULL,
     stack_ptr |-> NULL, frame_ptr |-> NULL, jb |-> NULL,
     mem |-> [a \in ByteAddrs |-> 0], slots |-> [a \in SlotAddrs |-> NULL],
     allocs |-> <<>>, ret |-> NULL, thrown |-> MCL_RESULT_OK,
     aborted |-> FALSE, undefined |-> FALSE,
     char_signed |-> TRUE]

\* a string object at str with the given content and reference count
StringAt(m, str, content, count) ==
    WrByte(memcpy(string_emplace(m, str, Len(content)), string_chars(str),
                  content, Len(content)),
           str + MCL_STRING_FIELD_REF_COUNT, count)

\* two string objects are in memory, the second behind the first
InitCompare ==
    /\ user_data = NULL
    /\ heap_start = NULL
    /\ heap_ptr = NULL
    /\ stack_end = NULL
    /\ stack_ptr = NULL
    /\ frame_ptr = NULL
    /\ jb = NULL
    /\ cstack = <<>>
    /\ pc = "uninit"
    /\ thrown = MCL_RESULT_OK
    /\ result = MCL_RESULT_OK
    /\ ret = NULL
    /\ allocs = <<>>
    /\ done = NoTry
    /\ made = NoString
    /\ frames = <<>>
    /\ fuel = 0
    /\ char_signed \in BOOLEAN
    /\ \E ca \in CompareContents, cb \in CompareContents,
          ra \in CompareCounts, rb \in CompareCounts :
          LET a == RegionBase
              b == a + string_size(Len(ca))
          IN  /\ b + string_size(Len(cb)) - 1 \in ByteAddrs
              /\ mem = StringAt(StringAt(Blank, a, ca, ra), b, cb, rb).mem
              /\ slots = SlotsOf(mem)
              /\ last = Op("input", a, b, 0)

\* string_compare(x, y) on the strings at the addresses a and b, in either
\* order and of a string with itself
op_string_compare(x, y) ==
    /\ last.op = "input"
    /\ ret' = string_compare(Cur, x, y)
    /\ last' = Op("string_compare", x, y, 0)
    /\ UNCHANGED <<user_data, heap_start, heap_ptr, stack_end, stack_ptr,
                   frame_ptr, jb, mem, slots, cstack, pc, thrown, result,
                   allocs, done, made, frames, char_signed, fuel>>

NextCompare ==
    \/ op_string_compare(last.a, last.b)
    \/ op_string_compare(last.b, last.a)
    \/ op_string_compare(last.a, last.a)
    \/ op_string_compare(last.b, last.b)

SpecCompare == InitCompare /\ [][NextCompare]_vars

InitChain == Init0 /\ fuel = ChainOps

\* frames pushed and popped, entries and strings pushed into the current
\* frame and popped from it, strings resized, acquired and released so that
\* the strings behind them move
NextChain ==
    \/ op_mcl_init(RegionBase, MCL_MIN_HEAP_ENTRIES, 1)
    \/ frame_push_stmt
    \/ op_frame_pop
    \/ stack_push_stmt(NULL)
    \/ push_string_stmt(<<65, 66>>)
    \/ stack_ptr < frame_ptr /\ op_stack_pop
    \/ \E i \in 1 .. Len(allocs) : op_string_grow(i, allocs[i].size - 3)
    \/ \E i \in 1 .. Len(allocs) : op_string_shrink(i, allocs[i].size - 5)
    \/ \E i \in 1 .. Len(allocs) : op_string_ref(i)
    \/ \E i \in 1 .. Len(allocs) : op_string_unref_local(i)

SpecChain == InitChain /\ [][NextChain]_vars

InitGrow == Init0 /\ fuel = GrowOps

\* the program of test_string_grow in the large region, inside and outside
\* an except_try: strings of one byte and of UINT8_MAX bytes are created and
\* grown a byte at a time
NextGrow ==
    \/ op_mcl_init(RegionBase, MaxEntries, 1)
    \/ cstack = <<>> /\ op_except_try
    \/ \E len \in {1, UINT8_MAX} : op_string_alloc(len)
    \/ \E i \in 1 .. Len(allocs) : op_string_grow(i, allocs[i].size - 3)
    \/ \E i \in 1 .. Len(allocs) : op_string_unref_local(i)
    \/ op_landing
    \/ op_func_return

SpecGrow == InitGrow /\ [][NextGrow]_vars

\* raw allocations resized while the stack holds their first bytes, addresses
\* inside them, the address of a stack slot and NULL
NextSweep ==
    \/ op_mcl_init(RegionBase, MCL_MIN_HEAP_ENTRIES, 1)
    \/ \E size \in {2, 3} : op_heap_alloc(size)
    \/ \E i \in 1 .. Len(allocs), d \in {0, 1} :
          op_stack_push(AllocStart(Cur, i) + d)
    \/ \E v \in {NULL, stack_ptr} : op_stack_push(v)
    \/ \E i \in 1 .. Len(allocs) : op_heap_grow(i, allocs[i].size + 2)
    \/ \E i \in 1 .. Len(allocs) : op_heap_shrink(i, allocs[i].size - 1)

SpecSweep == InitHeap /\ [][NextSweep]_vars

\* stack_push(ctx, string_ref(ctx, str)): the caller acquires the string and
\* keeps the new reference on the stack, in one statement
ref_push_stmt(i) ==
    /\ pc = "run"
    /\ i \in 1 .. Len(allocs) /\ allocs[i].str
    /\ heap_contains(Cur, AllocStart(Cur, i))
    /\ stack_space(Cur) >= 1
    /\ LET r == string_ref(Cur, AllocStart(Cur, i))
       IN  Commit([stack_push(r, r.ret) EXCEPT !.ret = NULL],
                  Op("ref_push", AllocStart(Cur, i), 0, 0))

InitDrop == Init0 /\ fuel = DropOps

\* a caller that holds one string in a local and keeps others on the stack,
\* and a callback that acquires and pushes the caller's strings, hands the
\* local string over to the stack, creates strings of its own and raises
NextDrop ==
    \/ op_mcl_init(RegionBase, MCL_MIN_HEAP_ENTRIES, 1)
    \/ allocs = <<>> /\ op_string_alloc(1)
    \/ cstack = <<>> /\ push_string_stmt(<<65, 66>>)
    \/ cstack = <<>> /\ op_except_try
    \/ \E i \in 1 .. Len(allocs) :
          /\ string_ref_count(Cur, AllocStart(Cur, i)) = 1
          /\ \A a \in LiveSlots(Cur) : slots[a] # AllocStart(Cur, i)
          /\ stack_push_stmt(AllocStart(Cur, i))
    \/ \E i \in 1 .. Len(allocs) : ref_push_stmt(i)
    \/ cstack # <<>> /\ push_string_stmt(<<67>>)
    \/ op_except_throw(MCL_RESULT_OUT_OF_MEMORY)
    \/ op_landing

SpecDrop == InitDrop /\ [][NextDrop]_vars

\* callers and callbacks that push frames, create strings of either length
\* class, shorten them, hand them over to the stack, look frames up, pop
\* frames, and raise
NextTerm ==
    \/ op_mcl_init(RegionBase, MaxEntries, 1)
    \/ cstack = <<>> /\ op_except_try
    \/ op_frame_push
    \/ \E len \in StrLens : op_string_alloc(len)
    \/ IsString(Cur, ret) /\ op_stack_push(ret)
    \/ \E i \in 1 .. Len(allocs) : op_string_shrink(i, 0)
    \/ op_frame_pop
    \/ \E level \in FrameLevels : op_frame_seek(level)
    \/ op_except_throw(MCL_RESULT_OUT_OF_MEMORY)
    \/ op_landing

\* except_try runs on when longjmp has landed in it: nothing else is
\* scheduled between the landing and its return
SpecTerm == InitGrow /\ [][NextTerm]_vars /\ WF_vars(op_landing)

\* ======== properties ========

\* an except_try has just returned a non-OK result
TryFailed ==
    pc = "run" /\ last.op = "except_try_return" /\ result # MCL_RESULT_OK

\* the step is the operation name, performed by a caller
StepOf(name) == fuel' = fuel - 1 /\ last'.op = name /\ pc' = "run"

\* the bytes of the i-th allocation of m
AllocBytes(m, i) ==
    [k \in 1 .. m.allocs[i].size |-> Byte(m, AllocStart(m, i) + k - 1)]

\* C1. Region containment: from mcl_init on, after every operation called
\* with its preconditions met, heap_start <= heap_ptr <= stack_ptr <=
\* stack_end.  An operation that makes a call of undefined behaviour does
\* not keep it: the source puts no bound on the cursors after the call.
RegionContainment ==
    /\ pc # "undefined"
    /\ pc # "uninit" =>
          /\ heap_start <= heap_ptr
          /\ heap_ptr <= stack_ptr
          /\ stack_ptr <= stack_end

\* C2. Relocation on grow: heap_grow of an allocation that is not the top one
\* advances heap_ptr by new_size - old_size, keeps the bytes of every other
\* allocation (and the old bytes of the grown one), adds the difference to
\* every slot that held the first byte of a higher allocation, so that it
\* holds its new first byte, and leaves the slots holding p alone.
GrowRelocates ==
    [][(StepOf("heap_grow") /\ last'.a + last'.b # heap_ptr) =>
        LET p == last'.a
            delta == last'.c - last'.b
            i == CHOOSE j \in AllocAt(Cur, p) : TRUE
        IN  /\ heap_ptr' = heap_ptr + delta
            /\ \A j \in 1 .. Len(allocs) :
                  j # i => AllocBytes(Cur', j) = AllocBytes(Cur, j)
            /\ \A k \in 0 .. (last'.b - 1) : mem'[p + k] = mem[p + k]
            /\ \A a \in LiveSlots(Cur) :
                  /\ slots[a] = p => slots'[a] = p
                  /\ \A j \in 1 .. Len(allocs) :
                        (j > i /\ slots[a] = AllocStart(Cur, j)) =>
                            /\ slots'[a] = slots[a] + delta
                            /\ slots'[a] = AllocStart(Cur', j)]_vars

\* a lower allocation was grown while slots held its address and the address
\* of a filled allocation above it
GrowRelocates_W ==
    /\ pc = "run"
    /\ last.op = "heap_grow"
    /\ Len(allocs) >= 2
    /\ last.a = AllocStart(Cur, 1)
    /\ \E a \in LiveSlots(Cur) : slots[a] = last.a
    /\ \E a \in LiveSlots(Cur) :
          slots[a] = AllocStart(Cur, 2) /\ mem[slots[a]] # 0

\* C3. Relocation on shrink and free: heap_shrink or heap_free of an
\* allocation that is not the top one lowers heap_ptr by the removed byte
\* count, lowers by that count every slot that held the first byte of a
\* higher allocation, so that it holds its new first byte, and keeps the
\* bytes of every other allocation; wherever the allocation lies.
ShrinkRelocates ==
    [][((StepOf("heap_shrink") \/ StepOf("heap_free"))
            /\ last'.a + last'.b # heap_ptr) =>
        LET p == last'.a
            delta == last'.b - last'.c
            i == CHOOSE j \in AllocAt(Cur, p) : TRUE
            \* where the j-th allocation is found afterwards
            to(j) == IF last'.op = "heap_free" /\ j > i THEN j - 1 ELSE j
        IN  /\ heap_ptr' = heap_ptr - delta
            /\ \A j \in 1 .. Len(allocs) :
                  j # i => AllocBytes(Cur', to(j)) = AllocBytes(Cur, j)
            /\ \A k \in 0 .. (last'.c - 1) : mem'[p + k] = mem[p + k]
            /\ \A a \in LiveSlots(Cur) :
                  \A j \in 1 .. Len(allocs) :
                      (j > i /\ slots[a] = AllocStart(Cur, j)) =>
                          /\ slots'[a] = slots[a] - delta
                          /\ slots'[a] = AllocStart(Cur', to(j))]_vars

\* the middle one of three allocations was freed while a slot held the
\* address of the filled allocation above it
ShrinkRelocates_W ==
    /\ pc = "run"
    /\ last.op = "heap_free"
    /\ Len(allocs) = 2
    /\ last.a = AllocStart(Cur, 2)
    /\ \E a \in LiveSlots(Cur) :
          slots[a] = AllocStart(Cur, 2) /\ mem[slots[a]] # 0

\* C4. Unwind cleanliness: after an except_try whose callback pushed strings
\* (in any stack order) and which returned OUT_OF_MEMORY, heap_space and
\* stack_height are what they were when the except_try was entered.
UnwindClean ==
    (TryFailed /\ result = MCL_RESULT_OUT_OF_MEMORY) =>
        /\ heap_space(Cur) = done.heap_space0
        /\ stack_height(Cur) = done.stack_height0

\* the callback had pushed at least two strings, and the one on top of the
\* stack was the lowest of them in the heap
UnwindClean_W ==
    /\ TryFailed /\ result = MCL_RESULT_OUT_OF_MEMORY
    /\ done.raise_stack_ptr + 2 * SlotSize <= done.saved_stack_ptr
    /\ done.raise_top = heap_ptr
    /\ done.raise_str # <<>>

\* C5 as claimed. Truncation to the saved mark: whenever except_try returns
\* a non-OK result, stack_ptr is the stack_ptr saved at its entry, whatever
\* the callback pushed or popped.
TruncatedToMark_Claimed ==
    TryFailed => stack_ptr = done.saved_stack_ptr

\* C5 as amended. When except_try returns a non-OK result and the stack top
\* was at or below the saved mark when the landing site fired, stack_ptr is
\* the saved stack_ptr; a stack already popped past the mark is left there.
TruncatedToMark ==
    TryFailed =>
        IF done.raise_stack_ptr <= done.saved_stack_ptr
        THEN stack_ptr = done.saved_stack_ptr
        ELSE stack_ptr = done.raise_stack_ptr

\* entries and a frame pushed by the callback were unwound
TruncatedToMark_W ==
    /\ TryFailed
    /\ done.raise_stack_ptr + 3 * SlotSize <= done.saved_stack_ptr
    /\ done.raise_frame_ptr # done.saved_frame_ptr

\* C6. Error-message preservation: when the callback pushed a string on top
\* of the stack and threw RUNTIME_ERROR or SYNTAX_ERROR, the string is alive,
\* intact, and the topmost entry at the restored top after except_try.
MessagePreserved ==
    (/\ TryFailed
     /\ result \in {MCL_RESULT_RUNTIME_ERROR, MCL_RESULT_SYNTAX_ERROR}
     /\ done.raise_stack_ptr < done.saved_stack_ptr
     /\ done.raise_str # <<>>) =>
        /\ stack_ptr = done.saved_stack_ptr - SlotSize
        /\ IsString(Cur, Slot(Cur, stack_ptr))
        /\ StrBytes(Cur, Slot(Cur, stack_ptr)) = done.raise_str

\* the slot a holds the same entry before and after the step: the same
\* value, or the address of the same string
SameEntry(a) ==
    \/ slots'[a] = slots[a]
    \/ /\ IsString(Cur, slots[a])
       /\ IsString(Cur', slots'[a])
       /\ StrBytes(Cur', slots'[a]) = StrBytes(Cur, slots[a])

\* C7. Innermost delivery: a thrown value reaches the innermost active
\* except_try, which returns it and pops no entry at or above its own saved
\* mark; the enclosing except_trys stay active, their entries stay on the
\* stack, and an except_try whose callback returns, returns OK.
InnermostDelivery ==
    [][/\ (pc = "landing" /\ pc' = "run") =>
            LET fr == cstack[Len(cstack)]
            IN  /\ result' = thrown
                /\ cstack' = SubSeq(cstack, 1, Len(cstack) - 1)
                /\ stack_ptr' = IF stack_ptr < fr.saved_stack_ptr
                                THEN fr.saved_stack_ptr ELSE stack_ptr
                /\ \A a \in DOMAIN slots :
                      (a >= stack_ptr' /\ a < stack_end) => SameEntry(a)
       /\ (pc = "run" /\ last'.op = "except_try_return"
                /\ Len(cstack') < Len(cstack)) =>
            /\ result' = MCL_RESULT_OK
            /\ cstack' = SubSeq(cstack, 1, Len(cstack) - 1)]_vars

\* an inner except_try returned an error after its callback had pushed
\* entries, while the enclosing one, whose callback had pushed entries before
\* it, is still active
InnermostDelivery_W ==
    /\ TryFailed
    /\ Len(cstack) = 1
    /\ done.jb = 2
    /\ done.raise_stack_ptr < done.saved_stack_ptr
    /\ done.saved_stack_ptr < cstack[1].saved_stack_ptr
    /\ stack_ptr = done.saved_stack_ptr

\* C8. Landing-site restoration: when except_try returns, ctx->jb is what it
\* was at its entry; the landing sites are installed and removed last-in
\* first-out, the current one belonging to the innermost active except_try.
LandingSiteRestored ==
    pc \in {"run", "landing"} =>
        /\ jb = Len(cstack)
        /\ \A i \in 1 .. Len(cstack) :
              cstack[i].jb = i /\ cstack[i].saved_jb = i - 1
        /\ (pc = "run" /\ last.op = "except_try_return") =>
              jb = done.saved_jb

\* an inner except_try returned an error while an outer one is active
LandingSiteRestored_W ==
    TryFailed /\ done.jb = 2 /\ jb = 1 /\ Len(cstack) = 1

\* C9. Frame pointer restoration on failure: whenever except_try returns a
\* non-OK result, frame_ptr is the frame_ptr saved at its entry.
FramePtrRestored ==
    TryFailed => frame_ptr = done.saved_frame_ptr

\* the callback had changed frame_ptr before it threw
FramePtrRestored_W ==
    TryFailed /\ done.raise_frame_ptr # done.saved_frame_ptr

\* C10. Raise before mutation: an operation that throws OUT_OF_MEMORY has
\* changed neither heap_ptr nor stack_ptr when the landing site fires.
RaiseBeforeMutation ==
    [][(/\ pc = "run" /\ pc' = "landing"
        /\ thrown' = MCL_RESULT_OUT_OF_MEMORY
        /\ last'.op # "except_throw") =>
            (heap_ptr' = heap_ptr /\ stack_ptr' = stack_ptr)]_vars

\* C11. string_alloc(L) raises OUT_OF_MEMORY exactly when 4 + L > heap_space:
\* with 4 + L = heap_space it succeeds and leaves heap_space 0, and when it
\* raises, no heap byte, no stack slot and neither cursor has changed.
AllocRaisesWhenShort ==
    [][(fuel' = fuel - 1 /\ last'.op = "string_alloc") =>
        IF 4 + last'.a > heap_space(Cur)
        THEN /\ pc' = "landing"
             /\ thrown' = MCL_RESULT_OUT_OF_MEMORY
             /\ mem' = mem /\ slots' = slots
             /\ heap_ptr' = heap_ptr /\ stack_ptr' = stack_ptr
        ELSE /\ pc' = "run"
             /\ ret' = heap_ptr
             /\ heap_space(Cur') = heap_space(Cur) - (4 + last'.a)]_vars

\* a string_alloc took the last free byte
AllocRaisesWhenShort_W ==
    /\ pc = "run"
    /\ last.op = "string_alloc"
    /\ ret # NULL
    /\ 4 + last.a > SlotSize
    /\ heap_space(Cur) = 0

\* C12. string_new of a content longer than MCL_MAX_STRING_LEN raises
\* OUT_OF_MEMORY to the innermost except_try: the landing site fires with
\* OUT_OF_MEMORY and the context as it was.
OverLengthRaises ==
    [][(/\ fuel' = fuel - 1
        /\ last'.op = "string_new"
        /\ last'.a > MCL_MAX_STRING_LEN
        /\ cstack # <<>>) =>
            /\ pc' = "landing"
            /\ thrown' = MCL_RESULT_OUT_OF_MEMORY
            /\ heap_ptr' = heap_ptr /\ stack_ptr' = stack_ptr]_vars

\* C13. String creation: string_alloc(L), string_new_with_len(B, L) and
\* string_new(B) that fit return an object at the old heap_ptr with reference
\* count 1, string_len L and chars[L] = 0, advance heap_ptr by exactly 4 + L,
\* and (the latter two) store the L bytes of B as the content.
StringCreated ==
    [][(/\ fuel' = fuel - 1
        /\ last'.op \in {"string_alloc", "string_new_with_len", "string_new"}
        /\ pc' = "run") =>
        LET L == last'.a
            str == ret'
        IN  /\ str = heap_ptr
            /\ heap_ptr' = heap_ptr + 4 + L
            /\ string_ref_count(Cur', str) = 1
            /\ string_len(Cur', str) = L
            /\ Byte(Cur', string_chars(str) + L) = 0
            /\ last'.op # "string_alloc" =>
                  \A k \in 1 .. L :
                      Byte(Cur', string_chars(str) + k - 1) = last'.b[k]]_vars

\* a string whose length needs both bytes of the length field was created
\* from its content
StringCreated_W ==
    /\ pc = "run"
    /\ last.op = "string_new_with_len"
    /\ last.a > UINT8_MAX
    /\ string_len(Cur, ret) = last.a
    /\ Byte(Cur, string_chars(ret) + last.a - 1) = last.b[last.a]

\* C14. string_grow sets the length: after string_grow(s, new_L) of a string
\* of length L < new_L <= MCL_MAX_STRING_LEN that fits, string_len(s) is
\* new_L, chars[new_L] is 0, the first L content bytes are unchanged and the
\* allocation occupies 4 + new_L bytes.
GrowSetsLength ==
    [][(/\ fuel' = fuel - 1 /\ last'.op = "string_grow" /\ pc' = "run"
        /\ string_len(Cur, last'.a) + 4
              = allocs[CHOOSE i \in AllocAt(Cur, last'.a) : TRUE].size) =>
        LET str == last'.a
            new_len == last'.b
            L == last'.c
            i == CHOOSE j \in AllocAt(Cur, str) : TRUE
        IN  /\ string_len(Cur', str) = new_len
            /\ Byte(Cur', string_chars(str) + new_len) = 0
            /\ \A k \in 0 .. (L - 1) :
                  Byte(Cur', string_chars(str) + k)
                      = Byte(Cur, string_chars(str) + k)
            /\ heap_ptr' = heap_ptr + (new_len - L)
            /\ allocs'[i].size = 4 + new_len]_vars

\* C15. string_shrink sets the length: after string_shrink(s, new_L) of a
\* string of length L > new_L, string_len(s) is new_L, chars[new_L] is 0, the
\* first new_L content bytes are unchanged and heap_space has increased by
\* L - new_L.
ShrinkSetsLength ==
    [][(/\ fuel' = fuel - 1 /\ last'.op = "string_shrink" /\ pc' = "run"
        /\ string_len(Cur, last'.a) + 4
              = allocs[CHOOSE i \in AllocAt(Cur, last'.a) : TRUE].size) =>
        LET str == last'.a
            new_len == last'.b
            L == last'.c
        IN  /\ string_len(Cur', str) = new_len
            /\ Byte(Cur', string_chars(str) + new_len) = 0
            /\ \A k \in 0 .. (new_len - 1) :
                  Byte(Cur', string_chars(str) + k)
                      = Byte(Cur, string_chars(str) + k)
            /\ heap_space(Cur') = heap_space(Cur) + (L - new_len)]_vars

\* C16. Reference counting round trip: a string created with count 1 and
\* then acquired k times (k <= 254) is freed by release number k + 1 and not
\* before; heap_space is then what it was before the creation; every acquire
\* returns the string itself.
RefRoundTrip ==
    made.str # NULL =>
        /\ IF made.releases = made.acquires + 1
           THEN /\ ~IsString(Cur, made.str)
                /\ heap_space(Cur) = made.heap_space0
           ELSE /\ made.releases <= made.acquires
                /\ IsString(Cur, made.str)
                /\ string_ref_count(Cur, made.str)
                      = 1 + made.acquires - made.releases
                /\ heap_space(Cur) < made.heap_space0
        /\ (pc = "run" /\ last.op = "string_ref") => ret = last.a

\* release number 255 has freed a string that was acquired 254 times
RefRoundTrip_W ==
    /\ made.acquires = UINT8_MAX - 1
    /\ made.releases = UINT8_MAX
    /\ last.op = "string_unref"
    /\ allocs = <<>>

\* C17. Reference count range: every live string's count byte is in 1..255;
\* a release at count 1 frees the object, it does not store 0; an acquire at
\* count 255 does not wrap the count, it stops the program.
RefCountRange ==
    [][/\ \A i \in 1 .. Len(allocs') :
             allocs'[i].str =>
                 string_ref_count(Cur', AllocStart(Cur', i)) \in 1 .. UINT8_MAX
       /\ (fuel' = fuel - 1 /\ last'.op = "string_unref"
               /\ string_ref_count(Cur, last'.a) = 1) =>
             /\ ~IsString(Cur', last'.a)
             /\ heap_ptr' = heap_ptr - (4 + string_len(Cur, last'.a))
             /\ mem' = mem
       /\ (fuel' = fuel - 1 /\ last'.op = "string_ref"
               /\ string_ref_count(Cur, last'.a) = UINT8_MAX) =>
             /\ pc' = "aborted"
             /\ mem' = mem]_vars

\* an acquire at count 255 has stopped the program
RefCountRange_W ==
    /\ pc = "aborted"
    /\ last.op = "string_ref"
    /\ string_ref_count(Cur, last.a) = UINT8_MAX

\* the number of stack slots that hold the address str
RootCount(m, str) == Cardinality({a \in LiveSlots(m) : m.slots[a] = str})

\* every live string's reference count is the number of slots that hold it
CountsAreRoots(m) ==
    \A i \in 1 .. Len(m.allocs) :
        m.allocs[i].str =>
            string_ref_count(m, AllocStart(m, i))
                = RootCount(m, AllocStart(m, i))

\* the current frame's header is on the stack: the self sentinel at
\* frame_ptr, the link to the previous frame in the slot after it
FrameIntact(m) ==
    /\ stack_contains(m, m.frame_ptr)
    /\ Slot(m, m.frame_ptr) = m.frame_ptr
    /\ stack_contains(m, m.frame_ptr + SlotSize)
    /\ Slot(m, m.frame_ptr + SlotSize) > m.frame_ptr

\* C18 as claimed. Reference count equals root count: between operations,
\* every live string's reference count is the number of stack slots in
\* [stack_ptr, stack_end) that hold its address.
RootCountEverywhere == pc = "run" => CountsAreRoots(Cur)

\* C18 as amended. The equality of reference count and root count is kept by
\* the statements that keep strings on the stack: a string created and pushed
\* in one statement, stack_swap of entries above the current frame's header,
\* frame_push, frame_pop of a frame whose header is on the stack, and
\* except_try with its unwinder.  The primitives alone do not establish it: string_alloc returns
\* a string of count 1 that no slot holds, string_ref raises a count without
\* a slot.
RootCountKept ==
    [][(/\ CountsAreRoots(Cur)
        /\ last'.op \in {"push_string", "stack_swap", "frame_push",
                         "frame_pop", "except_try", "except_throw",
                         "except_try_return"}
        /\ last'.op = "frame_pop" => FrameIntact(Cur)) =>
            CountsAreRoots(Cur')]_vars

\* the unwinder has released a string of the callback, a string of the
\* caller is still on the stack, and the counts are the root counts
RootCountKept_W ==
    /\ TryFailed
    /\ done.raise_str # <<>>
    /\ done.raise_top > heap_start
    /\ done.raise_stack_ptr < done.saved_stack_ptr
    /\ \E i \in 1 .. Len(allocs) :
          allocs[i].str /\ RootCount(Cur, AllocStart(Cur, i)) = 1
    /\ CountsAreRoots(Cur)

\* C19. Free space additivity: heap_alloc(k) lowers heap_space by exactly k,
\* heap_grow(p, old, new) lowers it by new - old, heap_shrink(p, old, new)
\* raises it by old - new and heap_free(p, size) raises it by size, whether
\* or not the allocation is the top one.
FreeSpaceAdditive ==
    [][(fuel' = fuel - 1 /\ pc' = "run") =>
        /\ last'.op = "heap_alloc" =>
              heap_space(Cur') = heap_space(Cur) - last'.a
        /\ last'.op = "heap_grow" =>
              heap_space(Cur') = heap_space(Cur) - (last'.c - last'.b)
        /\ last'.op = "heap_shrink" =>
              heap_space(Cur') = heap_space(Cur) + (last'.b - last'.c)
        /\ last'.op = "heap_free" =>
              heap_space(Cur') = heap_space(Cur) + last'.b]_vars

\* an allocation below two others was shrunk
FreeSpaceAdditive_W ==
    /\ pc = "run"
    /\ last.op = "heap_shrink"
    /\ Len(allocs) = 3
    /\ last.a = AllocStart(Cur, 1)
    /\ heap_ptr = heap_start + SumSizes(allocs, 3)

\* C20. Stack balance: the pointer stack is last-in first-out.  A push
\* stores its value in a new top slot, lowers stack_space by 1, raises
\* stack_height by 1 and leaves the entries below alone; a pop returns the
\* top entry and restores the stack_ptr of before its push; pop_n(n) lowers
\* stack_height by n, so n pushes and pop_n(n) leave it unchanged.
StackBalance ==
    [][(fuel' = fuel - 1 /\ pc' = "run") =>
        /\ last'.op = "stack_push" =>
              /\ stack_ptr' = stack_ptr - SlotSize
              /\ slots'[stack_ptr'] = last'.a
              /\ \A a \in LiveSlots(Cur) : slots'[a] = slots[a]
              /\ stack_space(Cur') = stack_space(Cur) - 1
              /\ stack_height(Cur') = stack_height(Cur) + 1
        /\ last'.op = "stack_pop" =>
              /\ ret' = slots[stack_ptr]
              /\ stack_ptr' = stack_ptr + SlotSize
              /\ slots' = slots
              /\ stack_space(Cur') = stack_space(Cur) + 1
              /\ stack_height(Cur') = stack_height(Cur) - 1
        /\ last'.op = "stack_pop_n" =>
              /\ stack_ptr' = stack_ptr + last'.a * SlotSize
              /\ slots' = slots
              /\ stack_height(Cur') = stack_height(Cur) - last'.a]_vars

\* 1 and 2 were pushed until no slot was free, and the second pop has
\* returned 1 and restored the stack_ptr of before the pushes
StackBalance_W ==
    /\ pc = "run"
    /\ last.op = "stack_pop"
    /\ ret = 1
    /\ Slot(Cur, stack_ptr - SlotSize) = 1
    /\ Slot(Cur, stack_ptr - 2 * SlotSize) = 2
    /\ stack_height(Cur) = 2 * MCL_CTX_N_INITIAL_FRAMES
    /\ stack_space(Cur) = 2

\* an entry of the current frame of m: a slot between the stack top and the
\* frame header
FrameEntries(m) == {a \in LiveSlots(m) : a < m.frame_ptr}

\* the entries of the current frame are values outside the heap or strings
\* with reference count 1 that no other entry holds
FrameLocal(m) ==
    \A a \in FrameEntries(m) :
        heap_contains(m, m.slots[a]) =>
            /\ IsString(m, m.slots[a])
            /\ string_ref_count(m, m.slots[a]) = 1
            /\ RootCount(m, m.slots[a]) = 1

\* C21. Frame nesting: a frame_pop of the frame pushed last, whose entries
\* are values outside the heap or fresh strings of count 1, restores
\* frame_ptr, stack_ptr and heap_space() to their values before that frame's
\* frame_push.
FrameNesting ==
    [][(/\ StepOf("frame_pop")
        /\ frames # <<>>
        /\ frames[Len(frames)].frame = frame_ptr
        /\ FrameLocal(Cur))
       => LET r == frames[Len(frames)]
          IN  /\ frame_ptr' = r.frame_ptr0
              /\ stack_ptr' = r.stack_ptr0
              /\ heap_space(Cur)' = r.heap_space0]_vars

\* a frame that held a fresh string has been popped: its header and the
\* string's address are still readable below the stack top, the heap is
\* empty again
FrameNesting_W ==
    /\ pc = "run" /\ last.op = "frame_pop"
    /\ Len(frames) = MCL_CTX_N_INITIAL_FRAMES
    /\ Slot(Cur, stack_ptr - 2 * SlotSize) = stack_ptr - 2 * SlotSize
    /\ made.str # NULL
    /\ Slot(Cur, stack_ptr - 3 * SlotSize) = made.str
    /\ heap_ptr = heap_start

\* C22. frame_push with fewer than two free stack slots raises
\* OUT_OF_MEMORY, which the innermost except_try returns, and leaves
\* stack_ptr, frame_ptr and every stack slot as they were; with two free
\* slots or more it returns.
FramePushRaises ==
    [][/\ (fuel' = fuel - 1 /\ last'.op = "frame_push") =>
            IF stack_space(Cur) < 2
            THEN /\ pc' = "landing"
                 /\ thrown' = MCL_RESULT_OUT_OF_MEMORY
                 /\ jb = Len(cstack)
                 /\ UNCHANGED <<stack_ptr, frame_ptr, slots>>
            ELSE pc' = "run"
       /\ (pc = "landing" /\ last.op = "frame_push" /\ pc' = "run") =>
            /\ result' = MCL_RESULT_OUT_OF_MEMORY
            /\ done'.jb = Len(cstack)
            /\ Len(cstack') = Len(cstack) - 1]_vars

\* a frame_push inside an except_try found one free slot and has raised
FramePushRaises_W ==
    /\ pc = "landing" /\ last.op = "frame_push"
    /\ thrown = MCL_RESULT_OUT_OF_MEMORY
    /\ stack_space(Cur) = 1
    /\ jb = 1

\* the current frame is the one the callers pushed last
CurrentIsLast == frames # <<>> /\ frames[Len(frames)].frame = frame_ptr

\* C23. frame_seek from the top: with F frames on the stack, frame_seek(0)
\* returns frame_ptr, frame_seek(level) with 0 < level < F returns the frame
\* pushed level frames before the current one, and frame_seek(level) with
\* level >= F returns NULL; the frames that remain after pushes and pops
\* are addressed in push order.
SeekFromTop ==
    [][(StepOf("frame_seek") /\ last'.a >= 0 /\ CurrentIsLast) =>
            /\ last'.a = 0 => ret' = frame_ptr
            /\ ret' = IF last'.a < Len(frames)
                      THEN frames[Len(frames) - last'.a].frame
                      ELSE NULL
            /\ UNCHANGED <<stack_ptr, frame_ptr, slots, frames>>]_vars

\* three frames pushed, one popped, and frame_seek(2) has returned the inner
\* initial frame
SeekFromTop_W ==
    /\ pc = "run" /\ last.op = "frame_seek" /\ last.a = 2
    /\ Len(frames) = MCL_CTX_N_INITIAL_FRAMES + 2
    /\ Slot(Cur, stack_ptr - 2 * SlotSize) = stack_ptr - 2 * SlotSize
    /\ ret = frames[2].frame
    /\ ret # frame_ptr

\* C24. frame_seek symmetry: K frame_pushes after mcl_init leave
\* K + MCL_CTX_N_INITIAL_FRAMES frames; a frame_seek(-1 - j) that returns
\* gives the frame pushed j frames after the outermost one, which is the
\* frame frame_seek(i) gives for i + j = K - 1 + MCL_CTX_N_INITIAL_FRAMES
\* (frame_seek(-1) the outermost frame), and NULL when j is not smaller than
\* the number of frames; it leaves the stack as it was.
SeekSymmetry ==
    [][(StepOf("frame_seek") /\ last'.a < 0 /\ CurrentIsLast) =>
            LET j == (0 - 1) - last'.a
                K == Len(frames) - MCL_CTX_N_INITIAL_FRAMES
                i == K - 1 + MCL_CTX_N_INITIAL_FRAMES - j
            IN  /\ ret' = IF j < Len(frames) THEN frames[j + 1].frame
                          ELSE NULL
                /\ i >= 0 => ret' = frame_seek(Cur, i).ret
                /\ i < 0 => ret' = NULL
                /\ UNCHANGED <<stack_ptr, frame_ptr, frames>>
                /\ \A a \in LiveSlots(Cur) : slots'[a] = slots[a]]_vars

\* one frame pushed after mcl_init: frame_seek(-2) has returned the inner
\* initial frame, the frame frame_seek(1) addresses
SeekSymmetry_W ==
    /\ pc = "run" /\ last.op = "frame_seek" /\ last.a = 0 - 2
    /\ Len(frames) = MCL_CTX_N_INITIAL_FRAMES + 1
    /\ CurrentIsLast
    /\ ret = frames[2].frame
    /\ ret = frame_seek(Cur, 1).ret

\* C25 as claimed: after mcl_init with MCL_MIN_HEAP_ENTRIES entries the
\* result is OK, stack_height() is 2, heap_ptr is heap_start, and
\* mcl_user_data() returns the pointer handed to mcl_init.
InitialState_Claimed ==
    [][/\ (pc = "uninit" /\ last'.op = "mcl_init" /\ last'.a # NULL
              /\ last'.b = MCL_MIN_HEAP_ENTRIES) =>
            /\ result' = MCL_RESULT_OK /\ pc' = "run"
            /\ stack_height(Cur)' = MCL_CTX_N_INITIAL_FRAMES
            /\ heap_ptr' = heap_start' /\ heap_start' = last'.a
       /\ (last.op = "mcl_init" /\ StepOf("mcl_user_data")) =>
            ret' = last.c]_vars

\* C25. Initial state: after mcl_init with MCL_MIN_HEAP_ENTRIES entries the
\* result is OK, stack_height() is 4 (two slots for each of the
\* MCL_CTX_N_INITIAL_FRAMES initial frames), heap_ptr is heap_start, and
\* mcl_user_data() returns the pointer handed to mcl_init.
InitialState ==
    [][/\ (pc = "uninit" /\ last'.op = "mcl_init" /\ last'.a # NULL
              /\ last'.b = MCL_MIN_HEAP_ENTRIES) =>
            /\ result' = MCL_RESULT_OK /\ pc' = "run"
            /\ stack_height(Cur)' = 2 * MCL_CTX_N_INITIAL_FRAMES
            /\ heap_ptr' = heap_start' /\ heap_start' = last'.a
       /\ (last.op = "mcl_init" /\ StepOf("mcl_user_data")) =>
            ret' = last.c]_vars

\* mcl_init on MCL_MIN_HEAP_ENTRIES entries with user_data 2, over a context
\* that held other values, then the query has returned 2
InitialState_W ==
    /\ pc = "run" /\ last.op = "mcl_user_data" /\ ret = 2
    /\ fuel = InitOps - 1
    /\ stack_end = heap_start + MCL_MIN_HEAP_ENTRIES * SlotSize
    /\ stack_height(Cur) = 2 * MCL_CTX_N_INITIAL_FRAMES
    /\ heap_ptr = heap_start
    /\ \E a \in SlotAddrs : slots[a] \in Garbage \ {NULL}

\* C26. mcl_init with a NULL region or fewer than MCL_MIN_HEAP_ENTRIES
\* entries returns OUT_OF_MEMORY and writes neither the context nor the
\* region; MCL_MIN_HEAP_ENTRIES entries are accepted.
InitRefuses ==
    [][(pc = "uninit" /\ last'.op = "mcl_init") =>
            IF last'.a = NULL \/ last'.b < MCL_MIN_HEAP_ENTRIES
            THEN /\ result' = MCL_RESULT_OUT_OF_MEMORY
                 /\ UNCHANGED <<user_data, heap_start, heap_ptr, stack_end,
                                stack_ptr, frame_ptr, jb, mem, slots>>
            ELSE /\ result' = MCL_RESULT_OK
                 /\ stack_end' = last'.a + last'.b * SlotSize]_vars

\* mcl_init was refused for MCL_MIN_HEAP_ENTRIES - 1 entries over a context
\* and a region that held other values, and these are still there
InitRefuses_W ==
    /\ pc = "uninit" /\ last.op = "mcl_init"
    /\ last.a # NULL /\ last.b = MCL_MIN_HEAP_ENTRIES - 1 /\ last.c # NULL
    /\ result = MCL_RESULT_OUT_OF_MEMORY
    /\ user_data \in Garbage \ {NULL}
    /\ heap_start \in Garbage \ {NULL}
    /\ \A a \in SlotAddrs : slots[a] \in Garbage \ {NULL}

\* C27. Frame pointer containment: after mcl_init and after every operation
\* that has returned, stack_ptr <= frame_ptr <= stack_end, and frame_ptr is
\* stack_end only when no frame is on the stack.
FramePtrContained ==
    pc = "run" =>
        /\ stack_ptr <= frame_ptr
        /\ frame_ptr <= stack_end
        /\ frame_ptr = stack_end => frames = <<>>

\* C28. 16-bit packing round trip: pack_u16 of a value v in 0 .. 65535 at
\* any destination writes v mod 256 at offset 0 and v div 256 at offset 1
\* and no other byte; unpack_u16 at that destination then returns v.
PackRoundTrip ==
    [][/\ last'.op = "pack_u16" =>
            /\ mem'[last.a] = last.b % 256
            /\ mem'[last.a + 1] = last.b \div 256
            /\ \A a \in ByteAddrs \ {last.a, last.a + 1} : mem'[a] = mem[a]
       /\ last'.op = "unpack_u16" => ret' = last.b /\ mem' = mem]_vars

\* 258 was packed at an odd address among bytes of 165 and read back
PackRoundTrip_W ==
    /\ last = Op("unpack_u16", RegionBase + 1, 258, 165)
    /\ ret = 258
    /\ mem[RegionBase + 1] = 2 /\ mem[RegionBase + 2] = 1
    /\ mem[RegionBase] = 165 /\ mem[RegionBase + 3] = 165

\* the bytes of the string at str, without its terminating NUL
CharsOf(m, str) ==
    [k \in 1 .. string_len(m, str) |-> Byte(m, string_chars(str) + k - 1)]

\* the string at a is a proper prefix of the string at b
ProperPrefix(m, a, b) ==
    /\ string_len(m, a) < string_len(m, b)
    /\ \A k \in 1 .. string_len(m, a) : CharsOf(m, a)[k] = CharsOf(m, b)[k]

\* C29. string_compare(a, b) returns -1, 0 or 1; 0 for a string and itself
\* and for strings of equal length and bytes, whatever their reference
\* counts; the negation of string_compare(b, a); and -1 when a is a proper
\* prefix of b, the empty string included.
CompareOrder ==
    [][last'.op = "string_compare" =>
            LET a == last'.a
                b == last'.b
            IN  /\ ret' \in {0 - 1, 0, 1}
                /\ a = b => ret' = 0
                /\ CharsOf(Cur, a) = CharsOf(Cur, b) => ret' = 0
                /\ ret' = 0 - string_compare(Cur, b, a)
                /\ ProperPrefix(Cur, a, b) => ret' = 0 - 1
                /\ ProperPrefix(Cur, b, a) => ret' = 1]_vars

\* the empty string, held twice, was compared with a string of 256 bytes
\* held once, and is less
CompareOrder_W ==
    /\ last.op = "string_compare" /\ last.a # last.b
    /\ string_len(Cur, last.a) = 0
    /\ string_len(Cur, last.b) = 256
    /\ string_ref_count(Cur, last.a) = 2
    /\ string_ref_count(Cur, last.b) = 1
    /\ ret = 0 - 1

\* the frames reached from frame by the links, the current one first
RECURSIVE ChainFrom(_, _, _)
ChainFrom(m, frame, n) ==
    IF frame = m.stack_end \/ n = 0 \/ ~stack_contains(m, frame + SlotSize)
    THEN <<>>
    ELSE <<frame>> \o ChainFrom(m, Slot(m, frame + SlotSize), n - 1)

\* every frame reached from frame_ptr has its header on the stack, its self
\* sentinel in slot 0 and in slot 1 a higher address, a frame or stack_end
WellFormed(m) ==
    LET chain == ChainFrom(m, m.frame_ptr, MaxEntries)
    IN  \A k \in 1 .. Len(chain) :
            LET f == chain[k]
                up == Slot(m, f + SlotSize)
            IN  /\ stack_contains(m, f) /\ stack_contains(m, f + SlotSize)
                /\ Slot(m, f) = f
                /\ up > f
                /\ up = m.stack_end \/
                      (k < Len(chain) /\ up = chain[k + 1])
                /\ k = Len(chain) => up = m.stack_end

\* C30. Frame chain well-formedness: after mcl_init and every frame_push,
\* frame_pop, push or pop of an entry of the current frame and string
\* operation, every frame reached from frame_ptr has f[0] = f and in f[1] a
\* strictly higher address that is the next frame's header or stack_end,
\* where the chain ends; the chain is the frames pushed and not popped;
\* right after frame_push, frame_ptr = stack_ptr and frame_ptr[1] is the
\* frame_ptr before; no other operation, a relocating one included, changes
\* a header slot of a frame that stays.
ChainWellFormed ==
    [][/\ pc' = "run" =>
            LET chain == ChainFrom(Cur, frame_ptr, MaxEntries)'
            IN  /\ WellFormed(Cur)'
                /\ Len(chain) = Len(frames')
                /\ \A k \in 1 .. Len(frames') :
                      chain[k] = frames'[Len(frames') + 1 - k].frame
       /\ StepOf("frame_push") =>
            /\ frame_ptr' = stack_ptr'
            /\ slots'[frame_ptr' + SlotSize] = frame_ptr
       /\ (pc = "run" /\ pc' = "run") =>
            \A k \in 1 .. Len(frames') :
                k <= Len(frames) =>
                    /\ frames'[k] = frames[k]
                    /\ slots'[frames[k].frame] = slots[frames[k].frame]
                    /\ slots'[frames[k].frame + SlotSize]
                          = slots[frames[k].frame + SlotSize]]_vars

\* in a frame pushed after mcl_init that holds two strings, the first one
\* has grown: the second has moved, its slot was rewritten
ChainWellFormed_W ==
    /\ pc = "run" /\ last.op = "string_grow" /\ last.b > last.c
    /\ Len(frames) = MCL_CTX_N_INITIAL_FRAMES + 1
    /\ Len(allocs) = 2
    /\ last.a = AllocStart(Cur, 1)
    /\ Slot(Cur, stack_ptr) = AllocStart(Cur, 2)
    /\ Slot(Cur, stack_ptr + SlotSize) = last.a
    /\ frame_ptr = stack_ptr + 2 * SlotSize

\* the length of the string at str as its creator has made it: the bytes of
\* its allocation without count, length field and NUL
LengthOf(m, str) ==
    m.allocs[CHOOSE i \in AllocAt(m, str) : TRUE].size - string_size(0)

\* C31. string_grow(s, new_L) of a string of length L raises OUT_OF_MEMORY
\* exactly when new_L - L > heap_space (it succeeds when they are equal), and
\* when it raises, the string, every other allocation, every stack slot and
\* both cursors are unchanged.
GrowRaisesWhenShort ==
    [][(fuel' = fuel - 1 /\ last'.op = "string_grow") =>
        IF last'.b - LengthOf(Cur, last'.a) > heap_space(Cur)
        THEN /\ pc' = "landing"
             /\ thrown' = MCL_RESULT_OUT_OF_MEMORY
             /\ mem' = mem /\ slots' = slots /\ allocs' = allocs
             /\ heap_ptr' = heap_ptr /\ stack_ptr' = stack_ptr
        ELSE pc' = "run"]_vars

\* C32. frame_seek is a pure query when it returns: for every level,
\* stack_ptr, frame_ptr, heap_ptr, the heap and every slot in
\* [stack_ptr, stack_end) are as before the call; the frame list of a
\* negative level is gone from the stack.
SeekIsQuery ==
    [][StepOf("frame_seek") =>
            /\ UNCHANGED <<stack_ptr, frame_ptr, heap_ptr, allocs>>
            /\ stack_height(Cur)' = stack_height(Cur)
            /\ \A a \in DOMAIN mem :
                  (a < heap_ptr \/ a >= stack_ptr) => mem'[a] = mem[a]
            /\ \A a \in LiveSlots(Cur) : slots'[a] = slots[a]]_vars

\* a frame_seek with a negative level has returned in a frame that holds a
\* string: the list it made is still readable in the free slots below the
\* stack top
SeekIsQuery_W ==
    /\ pc = "run" /\ last.op = "frame_seek" /\ last.a < 0
    /\ stack_ptr < frame_ptr
    /\ IsString(Cur, Slot(Cur, stack_ptr))
    /\ Slot(Cur, stack_ptr - SlotSize) = frame_ptr
    /\ Slot(Cur, stack_ptr - Len(frames) * SlotSize) = frames[1].frame
    /\ ret # NULL

\* C33. Relocation changes only pointers into moved bytes: heap_grow and
\* heap_shrink of the allocation p change a stack slot only if its value lay
\* in [p + old_size, heap_ptr), by the difference of the sizes; slots holding
\* p, an address inside p, a stack address, NULL or another value outside
\* the heap stay; when p is the top allocation no slot and no heap byte
\* changes.
SweepOnlyMoved ==
    [][(StepOf("heap_grow") \/ StepOf("heap_shrink")) =>
        LET p == last'.a
            old_size == last'.b
        IN  /\ \A a \in LiveSlots(Cur) :
                  IF slots[a] >= p + old_size /\ slots[a] < heap_ptr
                  THEN slots'[a] = slots[a] + (last'.c - old_size)
                  ELSE slots'[a] = slots[a]
            /\ p + old_size = heap_ptr =>
                  /\ slots' = slots
                  /\ \A b \in ByteAddrs : b < heap_ptr => mem'[b] = mem[b]]_vars

\* C34. A normal return keeps the callback's effects: when except_try
\* returns MCL_RESULT_OK because func returned, stack_ptr, frame_ptr, heap_ptr
\* and the contents of stack and heap are those func left, and only ctx->jb is
\* restored to the saved landing site; the two frames pushed by ctx_construct
\* are therefore on the stack when mcl_init returns.
NormalReturnKeeps ==
    [][/\ (fuel' = fuel - 1 /\ last'.op = "except_try_return") =>
            /\ result' = MCL_RESULT_OK
            /\ UNCHANGED <<stack_ptr, frame_ptr, heap_ptr, mem, slots, allocs>>
            /\ jb' = cstack[Len(cstack)].saved_jb
       /\ (last'.op = "mcl_init" /\ pc' = "run") =>
            /\ stack_ptr' = stack_end' - 4 * SlotSize
            /\ frame_ptr' = stack_ptr'
            /\ jb' = NULL]_vars

\* a nested except_try has returned MCL_RESULT_OK from a callback that pushed
\* two strings: both are still on the stack and in the heap, and the outer
\* landing site is current again
NormalReturnKeeps_W ==
    /\ pc = "run" /\ last.op = "except_try_return" /\ result = MCL_RESULT_OK
    /\ jb = 1 /\ Len(cstack) = 1
    /\ done.saved_stack_ptr = stack_ptr + 2 * SlotSize
    /\ IsString(Cur, Slot(Cur, stack_ptr))
    /\ IsString(Cur, Slot(Cur, stack_ptr + SlotSize))
    /\ Slot(Cur, stack_ptr) # Slot(Cur, stack_ptr + SlotSize)
    /\ Len(allocs) = 2

\* C35. Heap packing: the live allocations tile [heap_start, heap_ptr) in
\* creation order, with no gap and no overlap: heap_ptr - heap_start is the
\* sum of their current sizes, and an allocation starts at heap_start plus
\* the sizes of the live allocations created before it (so a new allocation
\* starts where the last one ends).
HeapPacked ==
    /\ heap_ptr - heap_start = SumSizes(allocs, Len(allocs))
    /\ \A i \in 1 .. Len(allocs) :
          AllocStart(Cur, i) = StartOf(allocs, heap_start, i)

\* C36. Stack and heap never overlap through rounding: stack_space is
\* floor(heap_space / slot size) in every reachable state, so pushing
\* stack_space entries leaves stack_ptr at or above heap_ptr, also after an
\* allocation whose size is no multiple of the slot size, and stack_space is
\* 0 whenever less than one whole slot of bytes is free.
SpaceRoundsDown ==
    /\ stack_space(Cur) = heap_space(Cur) \div SlotSize
    /\ stack_ptr - stack_space(Cur) * SlotSize >= heap_ptr
    /\ heap_space(Cur) < SlotSize => stack_space(Cur) = 0

\* after an allocation of a size that is no multiple of the slot size, pushes
\* have used every free slot: a part of a slot is free, and no entry fits
SpaceRoundsDown_W ==
    /\ pc = "run" /\ last.op = "stack_push"
    /\ Len(allocs) = 1 /\ allocs[1].size % SlotSize # 0
    /\ heap_space(Cur) > 0 /\ heap_space(Cur) < SlotSize
    /\ stack_space(Cur) = 0

\* C37. Unwinding drops exactly one reference per popped slot: a string that
\* a slot at or above the saved mark holds, and that the callback acquired and
\* pushed (next to other strings, lower or higher in the heap) before it
\* raised, is live after except_try with the count it had without the
\* callback's slots; its bytes are unchanged and the surviving slot holds its
\* first byte, relocated or not.
UnwindDropsOne ==
    [][(pc = "landing" /\ pc' = "run") =>
        \A a \in LiveSlots(Cur) :
            (a >= cstack[jb].saved_stack_ptr /\ IsString(Cur, slots[a])) =>
                LET popped == {b \in LiveSlots(Cur) :
                                  /\ b < cstack[jb].saved_stack_ptr
                                  /\ slots[b] = slots[a]}
                IN  /\ IsString(Cur', slots'[a])
                    /\ string_ref_count(Cur', slots'[a])
                          = string_ref_count(Cur, slots[a])
                              - Cardinality(popped)
                    /\ \A k \in 1 .. (3 + string_len(Cur, slots[a])) :
                          Byte(Cur', slots'[a] + k) = Byte(Cur, slots[a] + k)]_vars

\* the callback acquired and pushed the caller's string and pushed a string
\* that lies below it in the heap; the unwinder has freed the lower string,
\* and the caller's slot holds the string at its new place with count 1
UnwindDropsOne_W ==
    /\ TryFailed
    /\ done.raise_stack_ptr + 2 * SlotSize = done.saved_stack_ptr
    /\ done.raise_top = heap_start + string_size(1)
    /\ done.raise_str = <<2, 2, 0, 65, 66, 0>>
    /\ Len(allocs) = 1
    /\ Slot(Cur, stack_ptr) = heap_start
    /\ IsString(Cur, heap_start)
    /\ string_ref_count(Cur, heap_start) = 1
    /\ StrBytes(Cur, heap_start) = <<1, 2, 0, 65, 66, 0>>
    /\ heap_ptr = heap_start + 6

\* C38. Construction cannot fail: mcl_init with a region and any number of
\* entries from MCL_MIN_HEAP_ENTRIES on returns OK and leaves heap_ptr at
\* heap_start, no landing site installed, frame_ptr at stack_ptr, and a frame
\* chain of exactly two frames: the global table frame, whose link is the
\* procedure table frame, whose link is stack_end.
ConstructionSucceeds ==
    [][(pc = "uninit" /\ last'.op = "mcl_init" /\ last'.a # NULL
           /\ last'.b >= MCL_MIN_HEAP_ENTRIES) =>
            /\ result' = MCL_RESULT_OK /\ pc' = "run"
            /\ heap_ptr' = heap_start'
            /\ jb' = NULL
            /\ frame_ptr' = stack_ptr'
            /\ ChainFrom(Cur', frame_ptr', MaxEntries)
                  = <<stack_end' - 4 * SlotSize, stack_end' - 2 * SlotSize>>
            /\ Slot(Cur', stack_end' - SlotSize) = stack_end']_vars

\* mcl_init has returned OK for the largest region, over a region that held
\* other values: the two frame headers are its top four slots
ConstructionSucceeds_W ==
    /\ pc = "run" /\ last.op = "mcl_init" /\ last.b = MaxEntries
    /\ result = MCL_RESULT_OK /\ jb = NULL
    /\ frame_ptr = stack_end - 4 * SlotSize /\ stack_ptr = frame_ptr
    /\ Slot(Cur, frame_ptr) = frame_ptr
    /\ Slot(Cur, frame_ptr + SlotSize) = stack_end - 2 * SlotSize
    /\ Slot(Cur, stack_end - SlotSize) = stack_end
    /\ Slot(Cur, RegionBase) \in Garbage \ {NULL}

\* C39. Unwinding terminates: once a raise has reached an except_try, the
\* unwind loop finishes, having popped no more entries than lie between
\* stack_ptr at the raise and the saved mark, and except_try returns to its
\* caller; frame_pop finishes after at most (frame_ptr - stack_ptr) entries
\* + 2 pops; and frame_seek finishes (it returns or raises) on every
\* well-formed frame chain.
UnwindReturns ==
    /\ (pc = "landing") ~> (pc = "run")
    /\ [][(pc = "landing" /\ pc' # "landing") =>
             /\ pc' = "run" /\ last'.op = "except_try_return"
             /\ \/ stack_ptr' = stack_ptr
                \/ /\ stack_ptr' > stack_ptr
                   /\ stack_ptr' <= cstack[jb].saved_stack_ptr]_vars
    /\ [][(pc = "run" /\ fuel' = fuel - 1 /\ last'.op = "frame_pop") =>
             /\ pc' = "run"
             /\ stack_ptr' > stack_ptr
             /\ (stack_ptr' - stack_ptr) \div SlotSize
                   <= (frame_ptr - stack_ptr) \div SlotSize + 2]_vars
    /\ [][(/\ pc = "run" /\ fuel' = fuel - 1 /\ last'.op = "frame_seek"
            /\ WellFormed(Cur)) =>
             pc' \in {"run", "landing"}]_vars

====
